---------------------------- MODULE Spec2Model ----------------------------
(***************************************************************************)
(* Model of the stress-test harness of reasonkit-mem                       *)
(* (reasonkit-mem/tests/stress_tests.rs): the lock-free StressMetrics      *)
(* recorder, the MemoryTracker, MockStorage and the scenario drivers.      *)
(*                                                                         *)
(* Ten specifications share the module:                                    *)
(*   SpecMetrics  concurrent callers of record_success / record_failure,   *)
(*                one action per atomic operation of the code;             *)
(*   SpecTracker  record_initial followed by concurrent sample() calls,    *)
(*                one action per atomic operation of the code;             *)
(*   Spec         the scenario drivers (sustained mixed, burst, memory     *)
(*                pressure, high contention) at the granularity of their   *)
(*                suspension points;                                       *)
(*   SpecSummary  record_success / record_failure / summary() called one   *)
(*                after the other, over bounded arguments;                 *)
(*   SpecLeaks    record_initial / sample / check_for_leaks() called one   *)
(*                after the other, over bounded memory readings;           *)
(*   SpecCalls    the atomic operations of record_success and sample()     *)
(*                under fair scheduling of the callers;                    *)
(*   SpecRegistry the sustained mixed run against MockStorage with loops   *)
(*                that run several times;                                  *)
(*   SpecLive     the sustained mixed run against MockStorage under fair   *)
(*                scheduling of the tasks and of the test body;            *)
(*   SpecRag      RagPipeline::assemble_context (reasonkit-mem/src/rag/    *)
(*                mod.rs) applied to bounded lists of search results;      *)
(*   SpecMock     concurrent callers of MockStorage::write / read / len,   *)
(*                one action per statement, with the RwLock around data.   *)
(***************************************************************************)
EXTENDS Integers, Sequences, FiniteSets, TLC

(***************************************************************************)
(* Bounds of the model.                                                    *)
(***************************************************************************)
\* concurrent callers of the metrics recorder (SpecMetrics)
NumCallers == 2
\* record_success / record_failure calls made in one run of SpecMetrics
MaxCalls == 3
\* largest latency (ns) passed to record_success
MaxLatency == 2
\* largest value get_process_memory returns (in units of one page)
MaxMemory == 2
\* Err results and hanging calls the storage collaborator produces in a run
MaxFaults == 1
\* sample() calls made in one run of SpecLeaks
MaxSamples == 2
\* record_success / record_failure / sample calls made in one run of SpecCalls
MaxFairCalls == 2

\* The sizes of the scenarios, scaled down (the value in the source is given
\* with each).
\* CONCURRENT_WRITERS = 50, CONCURRENT_READERS = 100, TOTAL_OPERATIONS =
\* 10_000, scaled down in two shapes: "wide" has more tasks than in-flight
\* units and one operation per task, "deep" has one writer and one reader
\* whose loops run several times
WideWriters == 2
WideReaders == 1
WideOperations == 2
DeepWriters == 1
DeepReaders == 1
DeepOperations == 4
\* Semaphore::new(100)
SEMAPHORE_PERMITS == 2
\* stress_burst_traffic: burst_count = 5, ops_per_burst = 2000,
\* concurrent_per_burst = 100
burst_count == 2
ops_per_burst == 2
concurrent_per_burst == 2
\* stress_memory_pressure: 5000 keys, 10 churn rounds over the first 500 keys
pressure_keys == 2
churn_rounds == 2
churn_prefix == 1
\* stress_high_contention: 10 shared keys, concurrent_tasks = 100,
\* ops_per_task = 500
num_shared_keys == 2
concurrent_tasks == 2
ops_per_task == 2

\* const MEMORY_CHECK_INTERVAL: usize = 1000
MEMORY_CHECK_INTERVAL == 1000
\* const MAX_MEMORY_GROWTH_RATIO: f64 = 3.0
MAX_MEMORY_GROWTH_RATIO == 3

\* AtomicU64's largest value (u64::MAX, stress_tests.rs:212).  TLC's integers
\* are 32 bits wide, so the 64-bit word is represented by the largest value
\* TLC holds; WrapAdd keeps the wrap-around of fetch_add.
U64_MAX == 2147483647

Callers == 1..NumCallers
Latencies == 0..MaxLatency
\* get_process_memory: resident pages * 4096, or 0 when the read fails
MemoryValues == 0..MaxMemory
\* the latencies and memory readings of a scenario run
RunLatencies == {MaxLatency}
RunMemoryValues == {0, 1, MAX_MEMORY_GROWTH_RATIO + 1}
\* byte counts the scenarios pass: 0 (reads of the contention scenario), 100
ByteCounts == {0, 100}

(***************************************************************************)
(* State.                                                                  *)
(***************************************************************************)
VARIABLES
    \* ---- StressMetrics (stress_tests.rs:192-207)
    operations_completed, operations_failed, bytes_written, bytes_read,
    min_latency_ns, max_latency_ns, total_latency_ns,
    \* ---- callers of the recorder: position, arguments and the locals
    \*      `min` / `max` of record_success
    mpc, arg_latency, arg_bytes, loc_min, loc_max,
    \* ---- history of the calls (ghost): calls made, and the latencies and
    \*      bytes they carried
    calls_success, calls_failure, sum_latency, sum_bytes,
    counted_latencies, returned_latencies,
    \* ---- MemoryTracker (stress_tests.rs:67-76)
    initial_bytes, peak_bytes, current_bytes, sample_count,
    \* ---- the thread calling record_initial, and the callers of sample():
    \*      position and the locals `current` / `peak`
    ripc, tpc, loc_current, loc_peak, calls_sample,
    \* ---- history of the tracker: the largest reading get_process_memory
    \*      has handed to record_initial and sample so far
    max_sampled,
    \* ---- the scenario run: which test, and which storage collaborator
    \*      shape is the scaling of the sizes of the sustained mixed test
    scenario, storage_kind, shape,
    \* ---- the test body: position, loop indices, the timeout's result and
    \*      the outcome of the assertions
    hpc, next_spawn, join_idx, burst, h_round, h_i, result, verdict,
    \* ---- the tasks: position, loop index i, result of the last storage
    \*      call, the reader's key, the data read, barrier generation awaited
    pc, op_i, last, cur_key, got, wait_gen,
    \* ---- Barrier and Semaphore
    barrier_n, barrier_arrived, barrier_gen, permits,
    \* ---- MockStorage (stress_tests.rs:318-322) and the key registry
    data, write_count, read_count, keys,
    \* ---- faults of the collaborator so far; Err results returned (ghost)
    faults, errors_returned,
    \* ---- the StressTestSummary and the MemoryLeakResult last returned by
    \*      summary() and check_for_leaks(): <<>> before the first call,
    \*      <<the record>> after it
    summary_out, leak_out,
    \* ---- RagPipeline (rag/mod.rs:47-49): its RagConfig; the argument of
    \*      the last assemble_context call and the RagContext it returned
    \*      (<<>> before the first call, <<the record>> after it)
    config, results, rag_context,
    \* ---- MockStorage under concurrent callers: the RwLock around `data`
    \*      (its writer, 0 for none, and its readers), each caller's
    \*      position, arguments and results
    lock_writer, lock_readers, spc, s_key, s_value, s_ret, s_len,
    \* ---- history of the storage calls (ghost): calls begun, write calls
    \*      that returned, and the value of the last returned write per key
    calls_storage, writes_completed, completed

metricsFields == <<operations_completed, operations_failed, bytes_written,
                   bytes_read, min_latency_ns, max_latency_ns,
                   total_latency_ns>>
callerVars == <<mpc, arg_latency, arg_bytes, loc_min, loc_max>>
historyVars == <<calls_success, calls_failure, sum_latency, sum_bytes,
                 counted_latencies, returned_latencies>>
metricsVars == <<metricsFields, callerVars, historyVars>>
trackerFields == <<initial_bytes, peak_bytes, current_bytes, sample_count>>
samplerVars == <<ripc, tpc, loc_current, loc_peak, calls_sample, max_sampled>>
trackerVars == <<trackerFields, samplerVars>>
configVars == <<scenario, storage_kind, shape>>
harnessVars == <<hpc, next_spawn, join_idx, burst, h_round, h_i, result,
                 verdict>>
taskVars == <<pc, op_i, last, cur_key, got, wait_gen>>
syncVars == <<barrier_n, barrier_arrived, barrier_gen, permits>>
storageVars == <<data, write_count, read_count>>
faultVars == <<faults, errors_returned>>
runVars == <<configVars, harnessVars, taskVars, syncVars, storageVars, keys,
             faultVars>>
reportVars == <<summary_out, leak_out>>
ragVars == <<config, results, rag_context>>
mockVars == <<lock_writer, lock_readers, spc, s_key, s_value, s_ret, s_len,
              calls_storage, writes_completed, completed>>
vars == <<metricsVars, trackerVars, runVars, reportVars, ragVars, mockVars>>

\* what the steps of the recorder, of the tracker and of a scenario run
\* leave alone
MetricsFrame ==
    UNCHANGED <<trackerVars, runVars, reportVars, ragVars, mockVars>>
TrackerFrame ==
    UNCHANGED <<metricsVars, runVars, reportVars, ragVars, mockVars>>
CallFrame ==
    UNCHANGED <<configVars, callerVars, historyVars, samplerVars, ragVars,
                mockVars>>
RunFrame == CallFrame /\ UNCHANGED reportVars

\* RagConfig::default() in a pipeline on which nothing has been called
RagIdle ==
    /\ config = [max_context_tokens |-> 4096, include_citations |-> TRUE]
    /\ results = <<>>
    /\ rag_context = <<>>

\* const CONCURRENT_WRITERS: usize = 50
CONCURRENT_WRITERS == IF shape = "deep" THEN DeepWriters ELSE WideWriters
\* const CONCURRENT_READERS: usize = 100
CONCURRENT_READERS == IF shape = "deep" THEN DeepReaders ELSE WideReaders
\* const TOTAL_OPERATIONS: usize = 10_000
TOTAL_OPERATIONS == IF shape = "deep" THEN DeepOperations ELSE WideOperations

\* calls of record_success, record_failure and sample() made so far
CallsMade == calls_success + calls_failure + calls_sample

(***************************************************************************)
(* AtomicU64 operations.                                                   *)
(***************************************************************************)
\* fetch_add wraps around on overflow
WrapAdd(a, b) == IF a > U64_MAX - b THEN a - (U64_MAX - b) - 1 ELSE a + b

(***************************************************************************)
(* StressMetrics::new                                                      *)
(***************************************************************************)
\* (mutation of MetricsNew: min_latency_ns starts at zero like the other
\* fields)
MetricsNew_zero_min ==
    /\ operations_completed = 0
    /\ operations_failed = 0
    /\ bytes_written = 0
    /\ bytes_read = 0
    /\ min_latency_ns = 0
    /\ max_latency_ns = 0
    /\ total_latency_ns = 0

MetricsNew ==
    /\ operations_completed = 0
    /\ operations_failed = 0
    /\ bytes_written = 0
    /\ bytes_read = 0
    /\ min_latency_ns = U64_MAX
    /\ max_latency_ns = 0
    /\ total_latency_ns = 0

CallersInit ==
    /\ mpc = [c \in Callers |-> "idle"]
    /\ arg_latency = [c \in Callers |-> 0]
    /\ arg_bytes = [c \in Callers |-> 0]
    /\ loc_min = [c \in Callers |-> 0]
    /\ loc_max = [c \in Callers |-> 0]

HistoryInit ==
    /\ calls_success = 0
    /\ calls_failure = 0
    /\ sum_latency = 0
    /\ sum_bytes = 0
    /\ counted_latencies = {}
    /\ returned_latencies = {}

(***************************************************************************)
(* StressMetrics::record_success, one action per atomic operation.         *)
(***************************************************************************)
\* a caller invokes record_success(l, b)
RsCall(c, l, b) ==
    /\ mpc[c] = "idle"
    /\ CallsMade < MaxCalls
    /\ mpc' = [mpc EXCEPT ![c] = "rs_completed"]
    /\ arg_latency' = [arg_latency EXCEPT ![c] = l]
    /\ arg_bytes' = [arg_bytes EXCEPT ![c] = b]
    /\ calls_success' = calls_success + 1
    /\ sum_latency' = sum_latency + l
    /\ sum_bytes' = sum_bytes + b
    /\ UNCHANGED <<metricsFields, loc_min, loc_max, calls_failure,
                   counted_latencies, returned_latencies>>
    /\ MetricsFrame

\* self.operations_completed.fetch_add(1)
RsAddCompleted(c) ==
    /\ mpc[c] = "rs_completed"
    /\ operations_completed' = WrapAdd(operations_completed, 1)
    /\ counted_latencies' = counted_latencies \cup {arg_latency[c]}
    /\ mpc' = [mpc EXCEPT ![c] = "rs_bytes"]
    /\ UNCHANGED <<operations_failed, bytes_written, bytes_read,
                   min_latency_ns, max_latency_ns, total_latency_ns,
                   arg_latency, arg_bytes, loc_min, loc_max,
                   calls_success, calls_failure, sum_latency, sum_bytes,
                   returned_latencies>>
    /\ MetricsFrame

\* self.bytes_written.fetch_add(bytes)
RsAddBytes(c) ==
    /\ mpc[c] = "rs_bytes"
    /\ bytes_written' = WrapAdd(bytes_written, arg_bytes[c])
    /\ mpc' = [mpc EXCEPT ![c] = "rs_total"]
    /\ UNCHANGED <<operations_completed, operations_failed, bytes_read,
                   min_latency_ns, max_latency_ns, total_latency_ns,
                   arg_latency, arg_bytes, loc_min, loc_max, historyVars>>
    /\ MetricsFrame

\* (mutation of RsAddTotal: the byte count is added instead of the latency)
RsAddTotal_bytes(c) ==
    /\ mpc[c] = "rs_total"
    /\ total_latency_ns' = WrapAdd(total_latency_ns, arg_bytes[c])
    /\ mpc' = [mpc EXCEPT ![c] = "rs_min_load"]
    /\ arg_bytes' = [arg_bytes EXCEPT ![c] = 0]
    /\ UNCHANGED <<operations_completed, operations_failed, bytes_written,
                   bytes_read, min_latency_ns, max_latency_ns,
                   arg_latency, loc_min, loc_max, historyVars>>
    /\ MetricsFrame

\* self.total_latency_ns.fetch_add(latency_ns); `bytes` is not used after it
RsAddTotal(c) ==
    /\ mpc[c] = "rs_total"
    /\ total_latency_ns' = WrapAdd(total_latency_ns, arg_latency[c])
    /\ mpc' = [mpc EXCEPT ![c] = "rs_min_load"]
    /\ arg_bytes' = [arg_bytes EXCEPT ![c] = 0]
    /\ UNCHANGED <<operations_completed, operations_failed, bytes_written,
                   bytes_read, min_latency_ns, max_latency_ns,
                   arg_latency, loc_min, loc_max, historyVars>>
    /\ MetricsFrame

\* where the caller goes once its local `min` is m: the loop condition
\* `while latency_ns < min`
AfterMin(c, m) == IF arg_latency[c] < m THEN "rs_min_cas" ELSE "rs_max_load"

\* the local `min` is live only inside its loop
MinLocal(c, m) == IF arg_latency[c] < m THEN m ELSE 0

\* let mut min = self.min_latency_ns.load()
RsLoadMin(c) ==
    /\ mpc[c] = "rs_min_load"
    /\ loc_min' = [loc_min EXCEPT ![c] = MinLocal(c, min_latency_ns)]
    /\ mpc' = [mpc EXCEPT ![c] = AfterMin(c, min_latency_ns)]
    /\ UNCHANGED <<metricsFields, arg_latency, arg_bytes, loc_max,
                   historyVars>>
    /\ MetricsFrame

\* (mutation of RsCasMinOk: a plain store of the latency, whatever the value
\* last seen)
RsCasMinOk_store(c) ==
    /\ mpc[c] = "rs_min_cas"
    /\ min_latency_ns' = arg_latency[c]
    /\ mpc' = [mpc EXCEPT ![c] = "rs_max_load"]
    /\ loc_min' = [loc_min EXCEPT ![c] = 0]
    /\ UNCHANGED <<operations_completed, operations_failed, bytes_written,
                   bytes_read, max_latency_ns, total_latency_ns,
                   arg_latency, arg_bytes, loc_max, historyVars>>
    /\ MetricsFrame

\* compare_exchange_weak(min, latency_ns) succeeds: Ok(_) => break
RsCasMinOk(c) ==
    /\ mpc[c] = "rs_min_cas"
    /\ min_latency_ns = loc_min[c]
    /\ min_latency_ns' = arg_latency[c]
    /\ mpc' = [mpc EXCEPT ![c] = "rs_max_load"]
    /\ loc_min' = [loc_min EXCEPT ![c] = 0]
    /\ UNCHANGED <<operations_completed, operations_failed, bytes_written,
                   bytes_read, max_latency_ns, total_latency_ns,
                   arg_latency, arg_bytes, loc_max, historyVars>>
    /\ MetricsFrame

\* (mutation of RsCasMinErr: the loop gives up after a failed exchange)
RsCasMinErr_break(c) ==
    /\ mpc[c] = "rs_min_cas"
    /\ loc_min' = [loc_min EXCEPT ![c] = 0]
    /\ mpc' = [mpc EXCEPT ![c] = "rs_max_load"]
    /\ UNCHANGED <<metricsFields, arg_latency, arg_bytes, loc_max,
                   historyVars>>
    /\ MetricsFrame

\* (mutation of RsCasMinErr: the value returned by the failed exchange is
\* dropped, and the loop retries with the stale `min`)
RsCasMinErr_stale(c) ==
    /\ mpc[c] = "rs_min_cas"
    /\ UNCHANGED <<metricsFields, callerVars, historyVars>>
    /\ MetricsFrame

\* compare_exchange_weak fails (the value changed, or spuriously):
\* Err(m) => min = m, and the loop condition is evaluated again
RsCasMinErr(c) ==
    /\ mpc[c] = "rs_min_cas"
    /\ loc_min' = [loc_min EXCEPT ![c] = MinLocal(c, min_latency_ns)]
    /\ mpc' = [mpc EXCEPT ![c] = AfterMin(c, min_latency_ns)]
    /\ UNCHANGED <<metricsFields, arg_latency, arg_bytes, loc_max,
                   historyVars>>
    /\ MetricsFrame

\* the loop condition `while latency_ns > max`; past the loop the call returns
AfterMax(c, m) == IF arg_latency[c] > m THEN "rs_max_cas" ELSE "idle"

\* the local `max` is live only inside its loop
MaxLocal(c, m) == IF arg_latency[c] > m THEN m ELSE 0

\* the argument `latency_ns` is live until the call returns
LatencyArg(c, next) == IF next = "idle" THEN 0 ELSE arg_latency[c]

\* the history records the latency of a call when the call returns
Returned(c, next) ==
    IF next = "idle" THEN returned_latencies \cup {arg_latency[c]}
    ELSE returned_latencies

\* let mut max = self.max_latency_ns.load()
RsLoadMax(c) ==
    /\ mpc[c] = "rs_max_load"
    /\ loc_max' = [loc_max EXCEPT ![c] = MaxLocal(c, max_latency_ns)]
    /\ mpc' = [mpc EXCEPT ![c] = AfterMax(c, max_latency_ns)]
    /\ arg_latency' = [arg_latency EXCEPT
                         ![c] = LatencyArg(c, AfterMax(c, max_latency_ns))]
    /\ returned_latencies' = Returned(c, AfterMax(c, max_latency_ns))
    /\ UNCHANGED <<metricsFields, arg_bytes, loc_min,
                   calls_success, calls_failure, sum_latency, sum_bytes,
                   counted_latencies>>
    /\ MetricsFrame

\* compare_exchange_weak(max, latency_ns) succeeds: Ok(_) => break
RsCasMaxOk(c) ==
    /\ mpc[c] = "rs_max_cas"
    /\ max_latency_ns = loc_max[c]
    /\ max_latency_ns' = arg_latency[c]
    /\ mpc' = [mpc EXCEPT ![c] = "idle"]
    /\ loc_max' = [loc_max EXCEPT ![c] = 0]
    /\ arg_latency' = [arg_latency EXCEPT ![c] = 0]
    /\ returned_latencies' = returned_latencies \cup {arg_latency[c]}
    /\ UNCHANGED <<operations_completed, operations_failed, bytes_written,
                   bytes_read, min_latency_ns, total_latency_ns,
                   arg_bytes, loc_min,
                   calls_success, calls_failure, sum_latency, sum_bytes,
                   counted_latencies>>
    /\ MetricsFrame

\* (mutation of RsCasMaxErr: the loop gives up after a failed exchange)
RsCasMaxErr_break(c) ==
    /\ mpc[c] = "rs_max_cas"
    /\ loc_max' = [loc_max EXCEPT ![c] = 0]
    /\ mpc' = [mpc EXCEPT ![c] = "idle"]
    /\ arg_latency' = [arg_latency EXCEPT ![c] = 0]
    /\ returned_latencies' = returned_latencies \cup {arg_latency[c]}
    /\ UNCHANGED <<metricsFields, arg_bytes, loc_min,
                   calls_success, calls_failure, sum_latency, sum_bytes,
                   counted_latencies>>
    /\ MetricsFrame

\* compare_exchange_weak fails: Err(m) => max = m
RsCasMaxErr(c) ==
    /\ mpc[c] = "rs_max_cas"
    /\ loc_max' = [loc_max EXCEPT ![c] = MaxLocal(c, max_latency_ns)]
    /\ mpc' = [mpc EXCEPT ![c] = AfterMax(c, max_latency_ns)]
    /\ arg_latency' = [arg_latency EXCEPT
                         ![c] = LatencyArg(c, AfterMax(c, max_latency_ns))]
    /\ returned_latencies' = Returned(c, AfterMax(c, max_latency_ns))
    /\ UNCHANGED <<metricsFields, arg_bytes, loc_min,
                   calls_success, calls_failure, sum_latency, sum_bytes,
                   counted_latencies>>
    /\ MetricsFrame

(***************************************************************************)
(* StressMetrics::record_failure: one fetch_add.                           *)
(***************************************************************************)
\* (mutation of record_failure: the wrong counter is incremented)
record_failure_completed(c) ==
    /\ mpc[c] = "idle"
    /\ CallsMade < MaxCalls
    /\ operations_completed' = WrapAdd(operations_completed, 1)
    /\ calls_failure' = calls_failure + 1
    /\ UNCHANGED <<operations_failed, bytes_written, bytes_read,
                   min_latency_ns, max_latency_ns, total_latency_ns,
                   callerVars, calls_success, sum_latency, sum_bytes,
                   counted_latencies, returned_latencies>>
    /\ MetricsFrame

\* (mutation of record_failure: the failed operation also counts as
\* completed)
record_failure_both(c) ==
    /\ mpc[c] = "idle"
    /\ CallsMade < MaxCalls
    /\ operations_failed' = WrapAdd(operations_failed, 1)
    /\ operations_completed' = WrapAdd(operations_completed, 1)
    /\ calls_failure' = calls_failure + 1
    /\ UNCHANGED <<bytes_written, bytes_read,
                   min_latency_ns, max_latency_ns, total_latency_ns,
                   callerVars, calls_success, sum_latency, sum_bytes,
                   counted_latencies, returned_latencies>>
    /\ MetricsFrame

record_failure(c) ==
    /\ mpc[c] = "idle"
    /\ CallsMade < MaxCalls
    /\ operations_failed' = WrapAdd(operations_failed, 1)
    /\ calls_failure' = calls_failure + 1
    /\ UNCHANGED <<operations_completed, bytes_written, bytes_read,
                   min_latency_ns, max_latency_ns, total_latency_ns,
                   callerVars, calls_success, sum_latency, sum_bytes,
                   counted_latencies, returned_latencies>>
    /\ MetricsFrame

(***************************************************************************)
(* StressMetrics::summary                                                  *)
(***************************************************************************)
\* success_rate: completed as f64 / (completed + failed) as f64, or 0.0.  The
\* f64 quotient is kept as the fraction <<dividend, divisor>>.
success_rate_unguarded ==
    <<operations_completed, WrapAdd(operations_completed, operations_failed)>>
success_rate_failed_share ==
    IF WrapAdd(operations_completed, operations_failed) > 0
      THEN <<operations_failed,
             WrapAdd(operations_completed, operations_failed)>>
      ELSE <<0, 1>>
success_rate ==
    IF WrapAdd(operations_completed, operations_failed) > 0
      THEN <<operations_completed,
             WrapAdd(operations_completed, operations_failed)>>
      ELSE <<0, 1>>

\* (mutation of summary: the average is rounded to the nearest microsecond)
summary_rounded ==
    [operations_completed |-> operations_completed,
     operations_failed |-> operations_failed,
     bytes_processed |-> WrapAdd(bytes_written, bytes_read),
     avg_latency_us |-> IF operations_completed > 0
                          THEN ((total_latency_ns \div operations_completed)
                                   + 500) \div 1000
                          ELSE 0,
     min_latency_us |-> min_latency_ns \div 1000,
     max_latency_us |-> max_latency_ns \div 1000,
     success_rate |-> success_rate]

summary ==
    [operations_completed |-> operations_completed,
     operations_failed |-> operations_failed,
     bytes_processed |-> WrapAdd(bytes_written, bytes_read),
     avg_latency_us |-> IF operations_completed > 0
                          THEN (total_latency_ns \div operations_completed)
                                   \div 1000
                          ELSE 0,
     min_latency_us |-> min_latency_ns \div 1000,
     max_latency_us |-> max_latency_ns \div 1000,
     success_rate |-> success_rate]

(***************************************************************************)
(* MemoryTracker::new (Default: every field 0)                             *)
(***************************************************************************)
TrackerNew ==
    /\ initial_bytes = 0
    /\ peak_bytes = 0
    /\ current_bytes = 0
    /\ sample_count = 0

SamplersInit ==
    /\ ripc = "new"
    /\ tpc = [c \in Callers |-> "idle"]
    /\ loc_current = [c \in Callers |-> 0]
    /\ loc_peak = [c \in Callers |-> 0]
    /\ calls_sample = 0
    /\ max_sampled = 0

(***************************************************************************)
(* MemoryTracker::record_initial, one action per atomic store.  The        *)
(* scenarios call it once, before any task is spawned.                     *)
(***************************************************************************)
\* let current = get_process_memory(); self.initial_bytes.store(current)
RiStoreInitial(m) ==
    /\ ripc = "new"
    /\ initial_bytes' = m
    /\ max_sampled' = m
    /\ ripc' = "ri_current"
    /\ UNCHANGED <<peak_bytes, current_bytes, sample_count,
                   tpc, loc_current, loc_peak, calls_sample>>
    /\ TrackerFrame

\* self.current_bytes.store(current)
RiStoreCurrent ==
    /\ ripc = "ri_current"
    /\ current_bytes' = initial_bytes
    /\ ripc' = "ri_peak"
    /\ UNCHANGED <<initial_bytes, peak_bytes, sample_count,
                   tpc, loc_current, loc_peak, calls_sample, max_sampled>>
    /\ TrackerFrame

\* self.peak_bytes.store(current)
RiStorePeak ==
    /\ ripc = "ri_peak"
    /\ peak_bytes' = initial_bytes
    /\ ripc' = "recorded"
    /\ UNCHANGED <<initial_bytes, current_bytes, sample_count,
                   tpc, loc_current, loc_peak, calls_sample, max_sampled>>
    /\ TrackerFrame

(***************************************************************************)
(* MemoryTracker::sample, one action per atomic operation.                 *)
(***************************************************************************)
\* let current = get_process_memory(); self.current_bytes.store(current)
SmStoreCurrent(c, m) ==
    /\ ripc = "recorded"
    /\ tpc[c] = "idle"
    /\ CallsMade < MaxCalls
    /\ calls_sample' = calls_sample + 1
    /\ max_sampled' = IF m > max_sampled THEN m ELSE max_sampled
    /\ loc_current' = [loc_current EXCEPT ![c] = m]
    /\ current_bytes' = m
    /\ tpc' = [tpc EXCEPT ![c] = "sm_count"]
    /\ UNCHANGED <<initial_bytes, peak_bytes, sample_count, ripc, loc_peak>>
    /\ TrackerFrame

\* self.sample_count.fetch_add(1)
SmAddCount(c) ==
    /\ tpc[c] = "sm_count"
    /\ sample_count' = WrapAdd(sample_count, 1)
    /\ tpc' = [tpc EXCEPT ![c] = "sm_peak_load"]
    /\ UNCHANGED <<initial_bytes, peak_bytes, current_bytes,
                   ripc, loc_current, loc_peak, calls_sample, max_sampled>>
    /\ TrackerFrame

\* the loop condition `while current > peak`; past the loop the call returns
AfterPeak(c, p) == IF loc_current[c] > p THEN "sm_peak_cas" ELSE "idle"

\* the locals are live only inside the loop
PeakLocal(c, p) == IF loc_current[c] > p THEN p ELSE 0
CurrentLocal(c, p) == IF loc_current[c] > p THEN loc_current[c] ELSE 0

\* let mut peak = self.peak_bytes.load()
SmLoadPeak(c) ==
    /\ tpc[c] = "sm_peak_load"
    /\ loc_peak' = [loc_peak EXCEPT ![c] = PeakLocal(c, peak_bytes)]
    /\ loc_current' = [loc_current EXCEPT ![c] = CurrentLocal(c, peak_bytes)]
    /\ tpc' = [tpc EXCEPT ![c] = AfterPeak(c, peak_bytes)]
    /\ UNCHANGED <<trackerFields, ripc, calls_sample, max_sampled>>
    /\ TrackerFrame

\* (mutation of SmCasPeakOk: a plain store instead of the compare-exchange)
SmCasPeakOk_store(c) ==
    /\ tpc[c] = "sm_peak_cas"
    /\ peak_bytes' = loc_current[c]
    /\ tpc' = [tpc EXCEPT ![c] = "idle"]
    /\ loc_peak' = [loc_peak EXCEPT ![c] = 0]
    /\ loc_current' = [loc_current EXCEPT ![c] = 0]
    /\ UNCHANGED <<initial_bytes, current_bytes, sample_count,
                   ripc, calls_sample, max_sampled>>
    /\ TrackerFrame

\* compare_exchange_weak(peak, current) succeeds: Ok(_) => break
SmCasPeakOk(c) ==
    /\ tpc[c] = "sm_peak_cas"
    /\ peak_bytes = loc_peak[c]
    /\ peak_bytes' = loc_current[c]
    /\ tpc' = [tpc EXCEPT ![c] = "idle"]
    /\ loc_peak' = [loc_peak EXCEPT ![c] = 0]
    /\ loc_current' = [loc_current EXCEPT ![c] = 0]
    /\ UNCHANGED <<initial_bytes, current_bytes, sample_count,
                   ripc, calls_sample, max_sampled>>
    /\ TrackerFrame

\* (mutation of SmCasPeakErr: the loop gives up after a failed exchange)
SmCasPeakErr_break(c) ==
    /\ tpc[c] = "sm_peak_cas"
    /\ peak_bytes # loc_peak[c]
    /\ loc_peak' = [loc_peak EXCEPT ![c] = 0]
    /\ loc_current' = [loc_current EXCEPT ![c] = 0]
    /\ tpc' = [tpc EXCEPT ![c] = "idle"]
    /\ UNCHANGED <<trackerFields, ripc, calls_sample, max_sampled>>
    /\ TrackerFrame

\* compare_exchange_weak fails (the value changed, or spuriously):
\* Err(p) => peak = p
SmCasPeakErr(c) ==
    /\ tpc[c] = "sm_peak_cas"
    /\ loc_peak' = [loc_peak EXCEPT ![c] = PeakLocal(c, peak_bytes)]
    /\ loc_current' = [loc_current EXCEPT ![c] = CurrentLocal(c, peak_bytes)]
    /\ tpc' = [tpc EXCEPT ![c] = AfterPeak(c, peak_bytes)]
    /\ UNCHANGED <<trackerFields, ripc, calls_sample, max_sampled>>
    /\ TrackerFrame

(***************************************************************************)
(* The scenario drivers.  One action per suspension point of a task or of  *)
(* the test body; a call of record_success, record_failure, sample or      *)
(* record_initial made between two suspension points takes effect as one   *)
(* step (SpecMetrics and SpecTracker model these calls operation by        *)
(* operation), and so does a critical section of MockStorage or of the key *)
(* registry, which holds its lock across no suspension point.              *)
(***************************************************************************)
Max2(a, b) == IF a >= b THEN a ELSE b
Min2(a, b) == IF a <= b THEN a ELSE b

Scenarios == {"mixed", "burst", "pressure", "contention"}

\* number of tasks one run (one burst) of the scenario spawns
NumTasks ==
    CASE scenario = "mixed" -> CONCURRENT_WRITERS + CONCURRENT_READERS
      [] scenario = "burst" -> concurrent_per_burst
      [] scenario = "pressure" -> pressure_keys
      [] scenario = "contention" -> concurrent_tasks
      [] OTHER -> 0

MaxTasks ==
    Max2(Max2(Max2(WideWriters + WideReaders, DeepWriters + DeepReaders),
              concurrent_per_burst),
         Max2(pressure_keys, concurrent_tasks))

TaskIds == 1..MaxTasks
RunTasks == 1..NumTasks

Role(t) ==
    CASE scenario = "mixed" ->
             IF t <= CONCURRENT_WRITERS THEN "writer" ELSE "reader"
      [] scenario = "burst" -> "burst"
      [] scenario = "pressure" -> "insert"
      [] scenario = "contention" -> "contend"
      [] OTHER -> "none"

\* let ops_per_writer = TOTAL_OPERATIONS / CONCURRENT_WRITERS
ops_per_writer == TOTAL_OPERATIONS \div CONCURRENT_WRITERS
\* let ops_per_reader = (TOTAL_OPERATIONS / 2) / CONCURRENT_READERS
ops_per_reader == (TOTAL_OPERATIONS \div 2) \div CONCURRENT_READERS
\* let ops_per_task = ops_per_burst / concurrent_per_burst
ops_per_burst_task == ops_per_burst \div concurrent_per_burst

\* the bound of a task's `for i in 0..n` loop
OpsOf(t) ==
    CASE Role(t) = "writer" -> ops_per_writer
      [] Role(t) = "reader" -> ops_per_reader
      [] Role(t) = "burst" -> ops_per_burst_task
      [] Role(t) = "contend" -> ops_per_task
      [] OTHER -> 1

\* number of decimal digits of n, as format!("{}", n) prints it
Digits(n) == IF n < 10 THEN 1 ELSE IF n < 100 THEN 2 ELSE 3

\* (mutation of WriteKey: the writers of a run share their keys)
WriteKey_reused(t) ==
    CASE Role(t) = "contend" -> <<0, 0, op_i[t] % num_shared_keys>>
      [] Role(t) = "insert" -> <<0, 0, t - 1>>
      [] Role(t) = "burst" -> <<burst, t, op_i[t]>>
      [] OTHER -> <<0, 0, op_i[t]>>

\* (mutation of WriteKey: a contention task writes a key of its own)
WriteKey_fresh(t) ==
    CASE Role(t) = "contend" -> <<1, t, op_i[t]>>
      [] Role(t) = "insert" -> <<0, 0, t - 1>>
      [] Role(t) = "burst" -> <<burst, t, op_i[t]>>
      [] OTHER -> <<0, t, op_i[t]>>

\* the key of the write a task is about to issue: Uuid::new_v4() is a fresh
\* key per write (identified by scenario round, task and operation); the
\* contention scenario takes shared_keys[i % shared_keys.len()]
WriteKey(t) ==
    CASE Role(t) = "contend" -> <<0, 0, op_i[t] % num_shared_keys>>
      [] Role(t) = "insert" -> <<0, 0, t - 1>>
      [] Role(t) = "burst" -> <<burst, t, op_i[t]>>
      [] OTHER -> <<0, t, op_i[t]>>

\* the value written, as <<task, operation, length in bytes>>
WriteValue(t) ==
    CASE Role(t) = "writer" ->
             \* format!("writer-{}-op-{}-{}", writer_id, i, "x".repeat(100))
             <<t, op_i[t], 7 + Digits(t - 1) + 4 + Digits(op_i[t]) + 1 + 100>>
      [] Role(t) = "burst" ->
             \* format!("burst-{}-task-{}-op-{}", burst, task_id, i)
             <<t, op_i[t],
               6 + Digits(burst) + 6 + Digits(t - 1) + 4 + Digits(op_i[t])>>
      [] Role(t) = "insert" ->
             \* vec![b'X'; 100 + (i % 1000) * 10]
             <<t, 0, 100 + ((t - 1) % 1000) * 10>>
      [] OTHER ->
             \* format!("task-{}-update-{}", task_id, i)
             <<t, op_i[t], 5 + Digits(t - 1) + 8 + Digits(op_i[t])>>

ValueLen(v) == v[3]

\* no key picked yet; no data returned
NoKey == <<-1, 0, 0>>
NoValue == <<0, 0, 0>>

\* the key a task reads: the reader's registry pick, the contention task's
\* shared key
ReadKey(t) == IF Role(t) = "reader" THEN cur_key[t] ELSE WriteKey(t)

\* the start of iteration i of a task's loop, or the end of the task
LoopHead(t, i) ==
    IF i < OpsOf(t)
      THEN (IF Role(t) \in {"writer", "reader"} THEN "acquire" ELSE "write")
      ELSE "done"

\* the test body has not returned (the runtime is still running its tasks)
Running == hpc # "finished"

(***************************************************************************)
(* The calls into the recorder and the tracker, as one step each.          *)
(***************************************************************************)
\* metrics.record_success(latency_ns, bytes)
RecordSuccess(l, b) ==
    /\ operations_completed' = WrapAdd(operations_completed, 1)
    /\ bytes_written' = WrapAdd(bytes_written, b)
    /\ total_latency_ns' = WrapAdd(total_latency_ns, l)
    /\ min_latency_ns' = Min2(min_latency_ns, l)
    /\ max_latency_ns' = Max2(max_latency_ns, l)
    /\ UNCHANGED <<operations_failed, bytes_read>>

\* metrics.record_failure()
RecordFailure ==
    /\ operations_failed' = WrapAdd(operations_failed, 1)
    /\ UNCHANGED <<operations_completed, bytes_written, bytes_read,
                   min_latency_ns, max_latency_ns, total_latency_ns>>

\* memory_tracker.record_initial()
RecordInitial(m) ==
    /\ initial_bytes' = m
    /\ current_bytes' = m
    /\ peak_bytes' = m
    /\ UNCHANGED sample_count

\* (mutation of Sample: the sample is taken as the new baseline)
Sample_rebase(m) ==
    /\ current_bytes' = m
    /\ sample_count' = WrapAdd(sample_count, 1)
    /\ peak_bytes' = Max2(peak_bytes, m)
    /\ initial_bytes' = m

\* memory_tracker.sample()
Sample(m) ==
    /\ current_bytes' = m
    /\ sample_count' = WrapAdd(sample_count, 1)
    /\ peak_bytes' = Max2(peak_bytes, m)
    /\ UNCHANGED initial_bytes

\* summary.success_rate > num/den, with success_rate = completed /
\* (completed + failed), or 0.0 when nothing was recorded
SuccessRateAbove(num, den) ==
    /\ operations_completed + operations_failed > 0
    /\ operations_completed * den
           > num * (operations_completed + operations_failed)

\* an f64 quotient kept as the fraction r = <<dividend, divisor>>, compared
\* with num/den
FracAbove(r, num, den) == r[1] * den > num * r[2]
FracBelow(r, num, den) == r[1] * den < num * r[2]
FracEq(r, num, den) == r[1] * den = num * r[2]

\* check_for_leaks: growth_ratio = peak as f64 / initial as f64 if initial > 0,
\* else 1.0
growth_ratio_unguarded == <<peak_bytes, initial_bytes>>
growth_ratio ==
    IF initial_bytes > 0 THEN <<peak_bytes, initial_bytes>> ELSE <<1, 1>>

\* check_for_leaks().growth_ratio > num/den
GrowthRatioAbove(num, den) == FracAbove(growth_ratio, num, den)

\* check_for_leaks().growth_ratio < num
GrowthRatioBelow(num) == FracBelow(growth_ratio, num, 1)

\* check_for_leaks: leaked = current > initial && growth_ratio >
\* MAX_MEMORY_GROWTH_RATIO
possible_leak_any_growth ==
    GrowthRatioAbove(MAX_MEMORY_GROWTH_RATIO, 1)
possible_leak ==
    /\ current_bytes > initial_bytes
    /\ GrowthRatioAbove(MAX_MEMORY_GROWTH_RATIO, 1)

\* MemoryTracker::check_for_leaks: the MemoryLeakResult
check_for_leaks ==
    [initial_bytes |-> initial_bytes,
     peak_bytes |-> peak_bytes,
     final_bytes |-> current_bytes,
     growth_ratio |-> growth_ratio,
     possible_leak |-> possible_leak,
     samples_taken |-> sample_count]

(***************************************************************************)
(* The storage collaborator.  MockStorage::write and ::read always return  *)
(* Ok; the tasks take a Result, and a collaborator other than the mock     *)
(* (storage_kind = "opaque") may also return Err or never return.          *)
(***************************************************************************)
\* (mutation of StorageWriteOk: the store takes one entry and rejects the
\* writes of further keys)
StorageWriteOk_capped(t) ==
    /\ Running
    /\ pc[t] = "write"
    /\ IF DOMAIN data \subseteq {WriteKey(t)}
         THEN /\ data' = (WriteKey(t) :> WriteValue(t)) @@ data
              /\ write_count' = WrapAdd(write_count, 1)
              /\ last' = [last EXCEPT ![t] = "ok"]
         ELSE /\ UNCHANGED <<data, write_count>>
              /\ last' = [last EXCEPT ![t] = "err"]
    /\ pc' = [pc EXCEPT ![t] = "wrote"]
    /\ UNCHANGED <<metricsFields, trackerFields, harnessVars, op_i, cur_key, got,
                   wait_gen, syncVars, read_count, keys, faultVars>>
    /\ RunFrame

\* MockStorage::write: insert under the write lock, count, Ok(())
StorageWriteOk(t) ==
    /\ Running
    /\ pc[t] = "write"
    /\ data' = (WriteKey(t) :> WriteValue(t)) @@ data
    /\ write_count' = WrapAdd(write_count, 1)
    /\ last' = [last EXCEPT ![t] = "ok"]
    /\ pc' = [pc EXCEPT ![t] = "wrote"]
    /\ UNCHANGED <<metricsFields, trackerFields, harnessVars, op_i, cur_key, got,
                   wait_gen, syncVars, read_count, keys, faultVars>>
    /\ RunFrame

\* MockStorage::read: count and look the key up under the read lock
StorageReadOk(t) ==
    /\ Running
    /\ pc[t] = "read"
    /\ read_count' = WrapAdd(read_count, 1)
    /\ last' = [last EXCEPT
                  ![t] = IF ReadKey(t) \in DOMAIN data THEN "some" ELSE "none"]
    /\ got' = [got EXCEPT
                 ![t] = IF ReadKey(t) \in DOMAIN data THEN data[ReadKey(t)]
                        ELSE NoValue]
    /\ pc' = [pc EXCEPT ![t] = "did_read"]
    /\ UNCHANGED <<metricsFields, trackerFields, harnessVars, op_i, cur_key,
                   wait_gen, syncVars, data, write_count, keys, faultVars>>
    /\ RunFrame

\* the collaborator returns Err for one read or write
StorageErr(t) ==
    /\ Running
    /\ storage_kind = "opaque"
    /\ faults < MaxFaults
    /\ pc[t] \in {"write", "read"}
    /\ faults' = faults + 1
    /\ errors_returned' = errors_returned + 1
    /\ last' = [last EXCEPT ![t] = "err"]
    /\ pc' = [pc EXCEPT ![t] = IF pc[t] = "write" THEN "wrote" ELSE "did_read"]
    /\ UNCHANGED <<metricsFields, trackerFields, harnessVars, op_i, cur_key, got,
                   wait_gen, syncVars, storageVars, keys>>
    /\ RunFrame

\* the collaborator's call never returns
StorageHang(t) ==
    /\ Running
    /\ storage_kind = "opaque"
    /\ faults < MaxFaults
    /\ pc[t] \in {"write", "read"}
    /\ faults' = faults + 1
    /\ pc' = [pc EXCEPT ![t] = "hung"]
    /\ UNCHANGED <<metricsFields, trackerFields, harnessVars, op_i, last,
                   cur_key, got, wait_gen, syncVars, storageVars, keys,
                   errors_returned>>
    /\ RunFrame

(***************************************************************************)
(* Barrier and semaphore (tokio::sync).                                    *)
(***************************************************************************)
\* barrier.wait().await: the arrival.  The arrival that completes the
\* generation releases it and goes on; the others wait for the release.
BarrierArrive(t) ==
    /\ Running
    /\ pc[t] = "start"
    /\ IF barrier_arrived + 1 = barrier_n
         THEN /\ barrier_arrived' = 0
              /\ barrier_gen' = barrier_gen + 1
              /\ pc' = [pc EXCEPT ![t] = IF Role(t) = "reader" THEN "sleep"
                                         ELSE LoopHead(t, 0)]
              /\ UNCHANGED wait_gen
         ELSE /\ barrier_arrived' = barrier_arrived + 1
              /\ wait_gen' = [wait_gen EXCEPT ![t] = barrier_gen]
              /\ pc' = [pc EXCEPT ![t] = "waiting"]
              /\ UNCHANGED barrier_gen
    /\ UNCHANGED <<metricsFields, trackerFields, harnessVars, op_i, last,
                   cur_key, got, barrier_n, permits, storageVars, keys, faultVars>>
    /\ RunFrame

\* barrier.wait().await returns once the generation waited for is released
BarrierRelease(t) ==
    /\ Running
    /\ pc[t] = "waiting"
    /\ barrier_gen > wait_gen[t]
    /\ pc' = [pc EXCEPT ![t] = IF Role(t) = "reader" THEN "sleep"
                               ELSE LoopHead(t, 0)]
    /\ UNCHANGED <<metricsFields, trackerFields, harnessVars, op_i, last,
                   cur_key, got, wait_gen, syncVars, storageVars, keys, faultVars>>
    /\ RunFrame

\* (mutation of SemaphoreAcquire: the task goes on without a free unit)
SemaphoreAcquire_unbounded(t) ==
    /\ Running
    /\ pc[t] = "acquire"
    /\ permits' = permits - 1
    /\ pc' = [pc EXCEPT ![t] = IF Role(t) = "writer" THEN "write" ELSE "lookup"]
    /\ UNCHANGED <<metricsFields, trackerFields, harnessVars, op_i, last,
                   cur_key, got, wait_gen, barrier_n, barrier_arrived,
                   barrier_gen, storageVars, keys, faultVars>>
    /\ RunFrame

\* let _permit = semaphore.acquire().await.unwrap()
SemaphoreAcquire(t) ==
    /\ Running
    /\ pc[t] = "acquire"
    /\ permits > 0
    /\ permits' = permits - 1
    /\ pc' = [pc EXCEPT ![t] = IF Role(t) = "writer" THEN "write" ELSE "lookup"]
    /\ UNCHANGED <<metricsFields, trackerFields, harnessVars, op_i, last,
                   cur_key, got, wait_gen, barrier_n, barrier_arrived, barrier_gen,
                   storageVars, keys, faultVars>>
    /\ RunFrame

\* (mutation of SemaphoreRelease: the unit is kept at the end of the
\* iteration)
SemaphoreRelease_kept(t) ==
    /\ Running
    /\ pc[t] = "release"
    /\ op_i' = [op_i EXCEPT ![t] = op_i[t] + 1]
    /\ pc' = [pc EXCEPT ![t] = LoopHead(t, op_i[t] + 1)]
    /\ UNCHANGED <<metricsFields, trackerFields, harnessVars, last,
                   cur_key, got, wait_gen, syncVars, storageVars, keys,
                   faultVars>>
    /\ RunFrame

\* end of a loop iteration of a writer or reader: _permit is dropped
SemaphoreRelease(t) ==
    /\ Running
    /\ pc[t] = "release"
    /\ permits' = permits + 1
    /\ op_i' = [op_i EXCEPT ![t] = op_i[t] + 1]
    /\ pc' = [pc EXCEPT ![t] = LoopHead(t, op_i[t] + 1)]
    /\ UNCHANGED <<metricsFields, trackerFields, harnessVars, last,
                   cur_key, got, wait_gen, barrier_n, barrier_arrived, barrier_gen,
                   storageVars, keys, faultVars>>
    /\ RunFrame

(***************************************************************************)
(* stress_concurrent_read_write: the writer and reader tasks.              *)
(***************************************************************************)
\* (mutation of WriterOutcome: the key is registered whatever the result of
\* the write)
WriterOutcome_push_always(t, l) ==
    /\ Running
    /\ Role(t) = "writer"
    /\ pc[t] = "wrote"
    /\ IF last[t] = "ok"
         THEN RecordSuccess(l, ValueLen(WriteValue(t)))
         ELSE RecordFailure
    /\ pc' = [pc EXCEPT ![t] = "push"]
    /\ UNCHANGED <<trackerFields, harnessVars, op_i, last, cur_key, got, wait_gen,
                   syncVars, storageVars, keys, faultVars>>
    /\ RunFrame

\* match storage.write(..).await: Ok => record_success, Err => record_failure
WriterOutcome(t, l) ==
    /\ Running
    /\ Role(t) = "writer"
    /\ pc[t] = "wrote"
    /\ IF last[t] = "ok"
         THEN /\ RecordSuccess(l, ValueLen(WriteValue(t)))
              /\ pc' = [pc EXCEPT ![t] = "push"]
         ELSE /\ RecordFailure
              /\ pc' = [pc EXCEPT ![t] = "sample"]
    /\ UNCHANGED <<trackerFields, harnessVars, op_i, last, cur_key, got, wait_gen,
                   syncVars, storageVars, keys, faultVars>>
    /\ RunFrame

\* keys.write().await.push(key)
WriterPush(t) ==
    /\ Running
    /\ pc[t] = "push"
    /\ keys' = Append(keys, WriteKey(t))
    /\ pc' = [pc EXCEPT ![t] = "sample"]
    /\ UNCHANGED <<metricsFields, trackerFields, harnessVars, op_i, last,
                   cur_key, got, wait_gen, syncVars, storageVars, faultVars>>
    /\ RunFrame

\* (mutation of WriterSample: a sample after every operation)
WriterSample_every(t, m) ==
    /\ Running
    /\ pc[t] = "sample"
    /\ Sample(m)
    /\ pc' = [pc EXCEPT ![t] = "release"]
    /\ UNCHANGED <<metricsFields, harnessVars, op_i, last, cur_key, got, wait_gen,
                   syncVars, storageVars, keys, faultVars>>
    /\ RunFrame

\* if i % MEMORY_CHECK_INTERVAL == 0 { memory_tracker.sample() }
WriterSample(t, m) ==
    /\ Running
    /\ pc[t] = "sample"
    /\ IF op_i[t] % MEMORY_CHECK_INTERVAL = 0
         THEN Sample(m)
         ELSE UNCHANGED trackerFields
    /\ pc' = [pc EXCEPT ![t] = "release"]
    /\ UNCHANGED <<metricsFields, harnessVars, op_i, last, cur_key, got, wait_gen,
                   syncVars, storageVars, keys, faultVars>>
    /\ RunFrame

\* tokio::time::sleep(10ms) of a reader after the barrier
ReaderSleep(t) ==
    /\ Running
    /\ pc[t] = "sleep"
    /\ pc' = [pc EXCEPT ![t] = LoopHead(t, 0)]
    /\ UNCHANGED <<metricsFields, trackerFields, harnessVars, op_i, last,
                   cur_key, got, wait_gen, syncVars, storageVars, keys, faultVars>>
    /\ RunFrame

\* (mutation of ReaderLookup: the reader waits for a key to appear)
ReaderLookup_wait(t) ==
    /\ Running
    /\ pc[t] = "lookup"
    /\ keys # <<>>
    /\ cur_key' = [cur_key EXCEPT ![t] = keys[(op_i[t] % Len(keys)) + 1]]
    /\ pc' = [pc EXCEPT ![t] = "read"]
    /\ UNCHANGED <<got, metricsFields, trackerFields, harnessVars, op_i, last,
                   wait_gen, syncVars, storageVars, keys, faultVars>>
    /\ RunFrame

\* (mutation of ReaderLookup: keys_guard[i], the index not reduced modulo the
\* length; an index past the end yields no key)
ReaderLookup_no_mod(t) ==
    /\ Running
    /\ pc[t] = "lookup"
    /\ IF keys = <<>>
         THEN /\ pc' = [pc EXCEPT ![t] = "release"]
              /\ UNCHANGED cur_key
         ELSE /\ cur_key' = [cur_key EXCEPT
                               ![t] = IF op_i[t] + 1 \in DOMAIN keys
                                        THEN keys[op_i[t] + 1] ELSE NoKey]
              /\ pc' = [pc EXCEPT ![t] = "read"]
    /\ UNCHANGED <<got, metricsFields, trackerFields, harnessVars, op_i, last,
                   wait_gen, syncVars, storageVars, keys, faultVars>>
    /\ RunFrame

\* keys.read().await: `continue` on an empty registry, else
\* keys_guard[i % keys_guard.len()]
ReaderLookup(t) ==
    /\ Running
    /\ pc[t] = "lookup"
    /\ IF keys = <<>>
         THEN /\ pc' = [pc EXCEPT ![t] = "release"]
              /\ UNCHANGED cur_key
         ELSE /\ cur_key' = [cur_key EXCEPT
                               ![t] = keys[(op_i[t] % Len(keys)) + 1]]
              /\ pc' = [pc EXCEPT ![t] = "read"]
    /\ UNCHANGED <<got, metricsFields, trackerFields, harnessVars, op_i, last,
                   wait_gen, syncVars, storageVars, keys, faultVars>>
    /\ RunFrame

\* match storage.read(&key).await: Ok(Some(data)) => record_success,
\* Ok(None) => {}, Err => record_failure
ReaderOutcome(t, l) ==
    /\ Running
    /\ Role(t) = "reader"
    /\ pc[t] = "did_read"
    /\ CASE last[t] = "some" -> RecordSuccess(l, ValueLen(got[t]))
         [] last[t] = "err" -> RecordFailure
         [] OTHER -> UNCHANGED metricsFields
    /\ got' = [got EXCEPT ![t] = NoValue]
    /\ pc' = [pc EXCEPT ![t] = "release"]
    /\ UNCHANGED <<trackerFields, harnessVars, op_i, last, cur_key, wait_gen,
                   syncVars, storageVars, keys, faultVars>>
    /\ RunFrame

(***************************************************************************)
(* stress_burst_traffic, stress_high_contention and                        *)
(* stress_memory_pressure: the task bodies.                                *)
(***************************************************************************)
\* (mutation of BurstOutcome: a failed write is not recorded)
BurstOutcome_silent(t, l) ==
    /\ Running
    /\ Role(t) = "burst"
    /\ pc[t] = "wrote"
    /\ IF last[t] = "ok" THEN RecordSuccess(l, 100)
                         ELSE UNCHANGED metricsFields
    /\ op_i' = [op_i EXCEPT ![t] = op_i[t] + 1]
    /\ pc' = [pc EXCEPT ![t] = LoopHead(t, op_i[t] + 1)]
    /\ UNCHANGED <<trackerFields, harnessVars, last, cur_key, got, wait_gen,
                   syncVars, storageVars, keys, faultVars>>
    /\ RunFrame

\* if storage.write(..).await.is_ok() { record_success(latency_ns, 100) }
\* else { record_failure() }
BurstOutcome(t, l) ==
    /\ Running
    /\ Role(t) = "burst"
    /\ pc[t] = "wrote"
    /\ IF last[t] = "ok" THEN RecordSuccess(l, 100) ELSE RecordFailure
    /\ op_i' = [op_i EXCEPT ![t] = op_i[t] + 1]
    /\ pc' = [pc EXCEPT ![t] = LoopHead(t, op_i[t] + 1)]
    /\ UNCHANGED <<trackerFields, harnessVars, last, cur_key, got, wait_gen,
                   syncVars, storageVars, keys, faultVars>>
    /\ RunFrame

\* if storage.write(..).await.is_ok() { record_success(latency_ns, 50) }
\* else { record_failure() }
ContentionWriteOutcome(t, l) ==
    /\ Running
    /\ Role(t) = "contend"
    /\ pc[t] = "wrote"
    /\ IF last[t] = "ok" THEN RecordSuccess(l, 50) ELSE RecordFailure
    /\ pc' = [pc EXCEPT ![t] = "read"]
    /\ UNCHANGED <<trackerFields, harnessVars, op_i, last, cur_key, got,
                   wait_gen, syncVars, storageVars, keys, faultVars>>
    /\ RunFrame

\* if storage.read(&key).await.is_ok() { record_success(latency_ns, 0) }
\* (no else branch)
ContentionReadOutcome(t, l) ==
    /\ Running
    /\ Role(t) = "contend"
    /\ pc[t] = "did_read"
    /\ IF last[t] # "err" THEN RecordSuccess(l, 0)
       ELSE UNCHANGED metricsFields
    /\ got' = [got EXCEPT ![t] = NoValue]
    /\ op_i' = [op_i EXCEPT ![t] = op_i[t] + 1]
    /\ pc' = [pc EXCEPT ![t] = LoopHead(t, op_i[t] + 1)]
    /\ UNCHANGED <<trackerFields, harnessVars, last, cur_key, wait_gen,
                   syncVars, storageVars, keys, faultVars>>
    /\ RunFrame

\* (mutation of PressureOutcome: the result of the write is ignored)
PressureOutcome_tolerant(t, m) ==
    /\ Running
    /\ Role(t) = "insert"
    /\ pc[t] = "wrote"
    /\ IF (t - 1) % 500 = 0 THEN Sample(m) ELSE UNCHANGED trackerFields
    /\ pc' = [pc EXCEPT ![t] = "done"]
    /\ UNCHANGED <<metricsFields, harnessVars, op_i, last, cur_key, got,
                   wait_gen, syncVars, storageVars, keys, faultVars>>
    /\ RunFrame

\* storage.write(key, value).await.unwrap();
\* if i % 500 == 0 { memory_tracker.sample() }
PressureOutcome(t, m) ==
    /\ Running
    /\ Role(t) = "insert"
    /\ pc[t] = "wrote"
    /\ IF last[t] = "ok"
         THEN /\ IF (t - 1) % 500 = 0 THEN Sample(m)
                 ELSE UNCHANGED trackerFields
              /\ pc' = [pc EXCEPT ![t] = "done"]
         ELSE /\ UNCHANGED trackerFields
              /\ pc' = [pc EXCEPT ![t] = "panicked"]
    /\ UNCHANGED <<metricsFields, harnessVars, op_i, last, cur_key, got,
                   wait_gen, syncVars, storageVars, keys, faultVars>>
    /\ RunFrame

(***************************************************************************)
(* The test bodies.                                                        *)
(***************************************************************************)
\* memory_tracker.record_initial() of stress_concurrent_read_write and
\* stress_memory_pressure, before any task is spawned
HarnessRecordInitial(m) ==
    /\ hpc = "record_initial"
    /\ RecordInitial(m)
    /\ hpc' = IF scenario = "pressure" THEN "spawn" ELSE "setup"
    /\ UNCHANGED <<metricsFields, next_spawn, join_idx, burst, h_round, h_i,
                   result, verdict, taskVars, syncVars, storageVars, keys,
                   faultVars>>
    /\ RunFrame

\* for key in shared_keys.iter() { storage.write(*key, b"initial").unwrap() }
HarnessPrepopulate ==
    /\ hpc = "prepopulate"
    /\ data' = (<<0, 0, h_i>> :> <<0, 0, 7>>) @@ data
    /\ write_count' = WrapAdd(write_count, 1)
    /\ IF h_i + 1 < num_shared_keys
         THEN h_i' = h_i + 1 /\ hpc' = "prepopulate"
         ELSE h_i' = 0 /\ hpc' = "setup"
    /\ UNCHANGED <<metricsFields, trackerFields, next_spawn, join_idx, burst,
                   h_round, result, verdict, taskVars, syncVars, read_count,
                   keys, faultVars>>
    /\ RunFrame

\* (mutation of BarrierParticipants: one participant too few)
BarrierParticipants_short == NumTasks - 1

\* (mutation of BarrierParticipants: one participant more than there are
\* tasks)
BarrierParticipants_long == NumTasks + 1

\* the participant count given to Barrier::new
BarrierParticipants == NumTasks

\* Barrier::new(n) and, in the sustained mixed run, Semaphore::new(100)
HarnessSetup ==
    /\ hpc = "setup"
    /\ barrier_n' = BarrierParticipants
    /\ barrier_arrived' = 0
    /\ barrier_gen' = 0
    /\ permits' = IF scenario = "mixed" THEN SEMAPHORE_PERMITS ELSE permits
    /\ hpc' = "spawn"
    /\ UNCHANGED <<metricsFields, trackerFields, next_spawn, join_idx, burst,
                   h_round, h_i, result, verdict, taskVars, storageVars, keys,
                   faultVars>>
    /\ RunFrame

\* handles.push(tokio::spawn(..)): the next task starts running; a task of
\* the memory-pressure scenario starts with its write, the others with
\* barrier.wait()
HarnessSpawn ==
    /\ hpc = "spawn"
    /\ pc' = [pc EXCEPT ![next_spawn] =
                 IF scenario = "pressure" THEN "write" ELSE "start"]
    /\ IF next_spawn < NumTasks
         THEN next_spawn' = next_spawn + 1 /\ hpc' = "spawn"
         ELSE next_spawn' = 1 /\ hpc' = "join"
    /\ UNCHANGED <<metricsFields, trackerFields, join_idx, burst, h_round,
                   h_i, result, verdict, op_i, last, cur_key, got, wait_gen,
                   syncVars, storageVars, keys, faultVars>>
    /\ RunFrame

\* where the test body goes once every handle is joined
AfterJoin ==
    CASE scenario = "burst" -> "quiet"
      [] scenario = "pressure" -> "mid_sample"
      [] OTHER -> "report"

\* (mutation of HarnessJoin: the burst loop awaits the first handle only)
HarnessJoin_first_only ==
    /\ hpc = "join"
    /\ pc[join_idx] \in {"done", "panicked"}
    /\ IF pc[join_idx] = "panicked" /\ scenario \in {"pressure", "contention"}
         THEN /\ verdict' = "panicked"
              /\ hpc' = "finished"
              /\ UNCHANGED <<join_idx, result>>
         ELSE IF join_idx < NumTasks /\ scenario # "burst"
                THEN /\ join_idx' = join_idx + 1
                     /\ UNCHANGED <<hpc, result, verdict>>
                ELSE /\ join_idx' = 1
                     /\ hpc' = AfterJoin
                     /\ result' = IF scenario = "mixed" THEN "ok" ELSE result
                     /\ UNCHANGED verdict
    /\ UNCHANGED <<metricsFields, trackerFields, next_spawn, burst, h_round,
                   h_i, taskVars, syncVars, storageVars, keys, faultVars>>
    /\ RunFrame

\* handle.await of the next handle, which returns once its task has ended.
\* stress_memory_pressure and stress_high_contention unwrap the result, so
\* the panic of a task is the panic of the test.
HarnessJoin ==
    /\ hpc = "join"
    /\ pc[join_idx] \in {"done", "panicked"}
    /\ IF pc[join_idx] = "panicked" /\ scenario \in {"pressure", "contention"}
         THEN /\ verdict' = "panicked"
              /\ hpc' = "finished"
              /\ UNCHANGED <<join_idx, result>>
         ELSE IF join_idx < NumTasks
                THEN /\ join_idx' = join_idx + 1
                     /\ UNCHANGED <<hpc, result, verdict>>
                ELSE /\ join_idx' = 1
                     /\ hpc' = AfterJoin
                     /\ result' = IF scenario = "mixed" THEN "ok" ELSE result
                     /\ UNCHANGED verdict
    /\ UNCHANGED <<metricsFields, trackerFields, next_spawn, burst, h_round,
                   h_i, taskVars, syncVars, storageVars, keys, faultVars>>
    /\ RunFrame

\* timeout(Duration::from_secs(STRESS_TEST_TIMEOUT_SECS), ..) elapses before
\* every handle is joined (stress_concurrent_read_write only)
HarnessTimeout ==
    /\ hpc = "join"
    /\ scenario = "mixed"
    /\ result' = "elapsed"
    /\ hpc' = "report"
    /\ UNCHANGED <<metricsFields, trackerFields, next_spawn, join_idx, burst,
                   h_round, h_i, verdict, taskVars, syncVars, storageVars,
                   keys, faultVars>>
    /\ RunFrame

\* tokio::time::sleep(100ms) between bursts, then the next burst with a new
\* barrier and new tasks
HarnessQuiet ==
    /\ hpc = "quiet"
    /\ burst' = burst + 1
    /\ hpc' = IF burst + 1 < burst_count THEN "setup" ELSE "report"
    /\ pc' = [t \in TaskIds |-> IF burst + 1 < burst_count THEN "unspawned"
                                ELSE pc[t]]
    /\ op_i' = [t \in TaskIds |-> IF burst + 1 < burst_count THEN 0
                                  ELSE op_i[t]]
    /\ UNCHANGED <<metricsFields, trackerFields, next_spawn, join_idx,
                   h_round, h_i, result, verdict, last, cur_key, got,
                   wait_gen, syncVars, storageVars, keys, faultVars>>
    /\ RunFrame

\* memory_tracker.sample(); let mid_result = check_for_leaks()
HarnessMidSample(m) ==
    /\ hpc = "mid_sample"
    /\ Sample(m)
    /\ hpc' = "churn"
    /\ UNCHANGED <<metricsFields, next_spawn, join_idx, burst, h_round, h_i,
                   result, verdict, taskVars, syncVars, storageVars, keys,
                   faultVars>>
    /\ leak_out' = <<check_for_leaks'>>
    /\ UNCHANGED summary_out
    /\ CallFrame

\* for key in keys.iter().take(500) { let _ = storage.read(key).await; }
HarnessChurnRead ==
    /\ hpc = "churn"
    /\ h_i < Min2(churn_prefix, pressure_keys)
    /\ read_count' = WrapAdd(read_count, 1)
    /\ h_i' = h_i + 1
    /\ UNCHANGED <<metricsFields, trackerFields, hpc, next_spawn, join_idx,
                   burst, h_round, result, verdict, taskVars, syncVars, data,
                   write_count, keys, faultVars>>
    /\ RunFrame

\* if i % 2 == 0 { memory_tracker.sample() }; sleep(10ms); next round
HarnessChurnRound(m) ==
    /\ hpc = "churn"
    /\ h_i = Min2(churn_prefix, pressure_keys)
    /\ IF h_round % 2 = 0 THEN Sample(m) ELSE UNCHANGED trackerFields
    /\ h_i' = 0
    /\ h_round' = h_round + 1
    /\ hpc' = IF h_round + 1 < churn_rounds THEN "churn" ELSE "report"
    /\ UNCHANGED <<metricsFields, next_spawn, join_idx, burst, result,
                   verdict, taskVars, syncVars, storageVars, keys, faultVars>>
    /\ RunFrame

\* (mutation of Verdict: the timeout's result is not asserted)
Verdict_no_timeout ==
    CASE scenario = "mixed" ->
             IF ~SuccessRateAbove(95, 100) THEN "low_success_rate"
             ELSE IF possible_leak THEN "possible_leak"
             ELSE "passed"
      [] scenario = "pressure" ->
             IF ~GrowthRatioBelow(10) THEN "memory_growth" ELSE "passed"
      [] OTHER ->
             IF ~SuccessRateAbove(99, 100) THEN "low_success_rate"
             ELSE "passed"

\* the assertions at the end of each test, in their order
Verdict ==
    CASE scenario = "mixed" ->
             IF result # "ok" THEN "timed_out"
             ELSE IF ~SuccessRateAbove(95, 100) THEN "low_success_rate"
             ELSE IF possible_leak THEN "possible_leak"
             ELSE "passed"
      [] scenario = "pressure" ->
             IF ~GrowthRatioBelow(10) THEN "memory_growth" ELSE "passed"
      [] OTHER ->
             IF ~SuccessRateAbove(99, 100) THEN "low_success_rate"
             ELSE "passed"

\* let summary = metrics.summary(); check_for_leaks(); assert!(..)
HarnessReport ==
    /\ hpc = "report"
    /\ verdict' = Verdict
    /\ hpc' = "finished"
    /\ summary_out' = IF scenario = "pressure" THEN summary_out
                       ELSE <<summary>>
    /\ leak_out' = IF scenario \in {"mixed", "pressure"}
                    THEN <<check_for_leaks>> ELSE leak_out
    /\ UNCHANGED <<metricsFields, trackerFields, next_spawn, join_idx, burst,
                   h_round, h_i, result, taskVars, syncVars, storageVars,
                   keys, faultVars>>
    /\ CallFrame

(***************************************************************************)
(* Spec: one run of one scenario.                                          *)
(***************************************************************************)
\* MockStorage::new() with no call made
MockNew ==
    /\ lock_writer = 0
    /\ lock_readers = {}
    /\ spc = [c \in Callers |-> "idle"]
    /\ s_key = [c \in Callers |-> NoKey]
    /\ s_value = [c \in Callers |-> NoValue]
    /\ s_ret = [c \in Callers |-> <<>>]
    /\ s_len = [c \in Callers |-> 0]
    /\ calls_storage = 0
    /\ writes_completed = 0
    /\ completed = <<>>

RunNew ==
    /\ next_spawn = 1
    /\ join_idx = 1
    /\ burst = 0
    /\ h_round = 0
    /\ h_i = 0
    /\ result = "pending"
    /\ verdict = "none"
    /\ pc = [t \in TaskIds |-> "unspawned"]
    /\ op_i = [t \in TaskIds |-> 0]
    /\ last = [t \in TaskIds |-> "none"]
    /\ cur_key = [t \in TaskIds |-> NoKey]
    /\ got = [t \in TaskIds |-> NoValue]
    /\ wait_gen = [t \in TaskIds |-> 0]
    /\ barrier_n = 0
    /\ barrier_arrived = 0
    /\ barrier_gen = 0
    /\ permits = 0
    /\ data = <<>>
    /\ write_count = 0
    /\ read_count = 0
    /\ keys = <<>>
    /\ faults = 0
    /\ errors_returned = 0
    /\ summary_out = <<>>
    /\ leak_out = <<>>

\* no scenario runs (SpecMetrics, SpecTracker)
RunIdle ==
    /\ scenario = "none"
    /\ storage_kind = "mock"
    /\ shape = "wide"
    /\ hpc = "none"
    /\ RunNew

\* the first statement of the test body
FirstStep(s) ==
    CASE s \in {"mixed", "pressure"} -> "record_initial"
      [] s = "contention" -> "prepopulate"
      [] OTHER -> "setup"

Init ==
    /\ MetricsNew /\ CallersInit /\ HistoryInit
    /\ RagIdle /\ MockNew
    /\ TrackerNew /\ SamplersInit
    /\ scenario \in Scenarios
    /\ storage_kind \in {"mock", "opaque"}
    /\ shape = "wide"
    /\ hpc = FirstStep(scenario)
    /\ RunNew

TaskStep(t) ==
    \/ BarrierArrive(t)
    \/ BarrierRelease(t)
    \/ SemaphoreAcquire(t)
    \/ SemaphoreRelease(t)
    \/ StorageWriteOk(t)
    \/ StorageReadOk(t)
    \/ StorageErr(t)
    \/ StorageHang(t)
    \/ \E l \in RunLatencies : WriterOutcome(t, l)
    \/ WriterPush(t)
    \/ \E m \in RunMemoryValues : WriterSample(t, m)
    \/ ReaderSleep(t)
    \/ ReaderLookup(t)
    \/ \E l \in RunLatencies : ReaderOutcome(t, l)
    \/ \E l \in RunLatencies : BurstOutcome(t, l)
    \/ \E l \in RunLatencies : ContentionWriteOutcome(t, l)
    \/ \E l \in RunLatencies : ContentionReadOutcome(t, l)
    \/ \E m \in RunMemoryValues : PressureOutcome(t, m)

HarnessStep ==
    \/ \E m \in RunMemoryValues : HarnessRecordInitial(m)
    \/ HarnessPrepopulate
    \/ HarnessSetup
    \/ HarnessSpawn
    \/ HarnessJoin
    \/ HarnessTimeout
    \/ HarnessQuiet
    \/ \E m \in RunMemoryValues : HarnessMidSample(m)
    \/ HarnessChurnRead
    \/ \E m \in RunMemoryValues : HarnessChurnRound(m)
    \/ HarnessReport

Next ==
    \/ HarnessStep
    \/ \E t \in TaskIds : TaskStep(t)

Spec == Init /\ [][Next]_vars

(***************************************************************************)
(* SpecRegistry: the sustained mixed test against MockStorage in the       *)
(* "deep" shape, where the reader's loop index runs past the registry's    *)
(* length.                                                                 *)
(***************************************************************************)
InitRegistry ==
    /\ MetricsNew /\ CallersInit /\ HistoryInit
    /\ RagIdle /\ MockNew
    /\ TrackerNew /\ SamplersInit
    /\ scenario = "mixed"
    /\ storage_kind = "mock"
    /\ shape = "deep"
    /\ hpc = FirstStep(scenario)
    /\ RunNew

\* the memory reading of this run (the registry does not depend on it)
RegistryMemoryValues == {1}

MixedTaskStep(t) ==
    \/ BarrierArrive(t)
    \/ BarrierRelease(t)
    \/ SemaphoreAcquire(t)
    \/ SemaphoreRelease(t)
    \/ StorageWriteOk(t)
    \/ StorageReadOk(t)
    \/ \E l \in RunLatencies : WriterOutcome(t, l)
    \/ WriterPush(t)
    \/ \E m \in RegistryMemoryValues : WriterSample(t, m)
    \/ ReaderSleep(t)
    \/ ReaderLookup(t)
    \/ \E l \in RunLatencies : ReaderOutcome(t, l)

MixedHarnessStep ==
    \/ \E m \in RegistryMemoryValues : HarnessRecordInitial(m)
    \/ HarnessSetup
    \/ HarnessSpawn
    \/ HarnessJoin
    \/ HarnessTimeout
    \/ HarnessReport

NextRegistry ==
    \/ MixedHarnessStep
    \/ \E t \in TaskIds : MixedTaskStep(t)

SpecRegistry == InitRegistry /\ [][NextRegistry]_vars

(***************************************************************************)
(* SpecMetrics: any number of callers, any interleaving.                   *)
(***************************************************************************)
InitMetrics ==
    /\ MetricsNew /\ CallersInit /\ HistoryInit
    /\ RagIdle /\ MockNew
    /\ TrackerNew /\ SamplersInit
    /\ RunIdle

MetricsStep(c) ==
        \/ \E l \in Latencies, b \in ByteCounts : RsCall(c, l, b)
        \/ RsAddCompleted(c)
        \/ RsAddBytes(c)
        \/ RsAddTotal(c)
        \/ RsLoadMin(c)
        \/ RsCasMinOk(c)
        \/ RsCasMinErr(c)
        \/ RsLoadMax(c)
        \/ RsCasMaxOk(c)
        \/ RsCasMaxErr(c)
        \/ record_failure(c)

NextMetrics == \E c \in Callers : MetricsStep(c)

SpecMetrics == InitMetrics /\ [][NextMetrics]_vars

\* every call made has returned
AllReturned == \A c \in Callers : mpc[c] = "idle"

(***************************************************************************)
(* SpecTracker: record_initial, then any number of concurrent sample()     *)
(* calls in any interleaving.                                              *)
(***************************************************************************)
InitTracker ==
    /\ MetricsNew /\ CallersInit /\ HistoryInit
    /\ RagIdle /\ MockNew
    /\ TrackerNew /\ SamplersInit
    /\ RunIdle

record_initial ==
    \/ \E m \in MemoryValues : RiStoreInitial(m)
    \/ RiStoreCurrent
    \/ RiStorePeak

sample(c) ==
    \/ \E m \in MemoryValues : SmStoreCurrent(c, m)
    \/ SmAddCount(c)
    \/ SmLoadPeak(c)
    \/ SmCasPeakOk(c)
    \/ SmCasPeakErr(c)

NextTracker ==
    \/ record_initial
    \/ \E c \in Callers : sample(c)

SpecTracker == InitTracker /\ [][NextTracker]_vars

\* every sample() call made has returned
AllSampled == \A c \in Callers : tpc[c] = "idle"

(***************************************************************************)
(* SpecCalls: callers of the recorder and of the tracker together, one     *)
(* action per atomic operation, under fair scheduling: a caller inside a   *)
(* call that can take a step eventually takes one.  A compare_exchange_weak *)
(* that fails spuriously leaves the state as it was and is retried; it     *)
(* does not fail spuriously for ever.                                      *)
(***************************************************************************)
\* a new recorder, and a tracker on which record_initial() has run and read 0
InitCalls ==
    /\ MetricsNew /\ CallersInit /\ HistoryInit
    /\ RagIdle /\ MockNew
    /\ TrackerNew
    /\ ripc = "recorded"
    /\ tpc = [c \in Callers |-> "idle"]
    /\ loc_current = [c \in Callers |-> 0]
    /\ loc_peak = [c \in Callers |-> 0]
    /\ calls_sample = 0
    /\ max_sampled = 0
    /\ RunIdle

\* the steps of caller c inside record_success
RecorderProgress(c) ==
    \/ RsAddCompleted(c)
    \/ RsAddBytes(c)
    \/ RsAddTotal(c)
    \/ RsLoadMin(c)
    \/ RsCasMinOk(c)
    \/ RsCasMinErr(c)
    \/ RsLoadMax(c)
    \/ RsCasMaxOk(c)
    \/ RsCasMaxErr(c)

\* the steps of caller c inside sample()
SamplerProgress(c) ==
    \/ SmAddCount(c)
    \/ SmLoadPeak(c)
    \/ SmCasPeakOk(c)
    \/ SmCasPeakErr(c)

\* arguments that make the callers contend: latencies and memory readings
\* that each improve on the extreme stored so far
FairLatencies == {MaxLatency - 1, MaxLatency}
FairMemoryValues == {MaxMemory - 1, MaxMemory}

NextCalls ==
    \/ \E c \in Callers, l \in FairLatencies :
           CallsMade < MaxFairCalls /\ RsCall(c, l, 0)
    \/ \E c \in Callers : RecorderProgress(c)
    \/ \E c \in Callers : CallsMade < MaxFairCalls /\ record_failure(c)
    \/ \E c \in Callers, m \in FairMemoryValues :
           CallsMade < MaxFairCalls /\ SmStoreCurrent(c, m)
    \/ \E c \in Callers : SamplerProgress(c)

FairCalls ==
    \A c \in Callers :
        /\ WF_vars(RecorderProgress(c))
        /\ WF_vars(SamplerProgress(c))

SpecCalls == InitCalls /\ [][NextCalls]_vars /\ FairCalls

(***************************************************************************)
(* SpecSummary: record_success, record_failure and summary() called one    *)
(* after the other on one recorder.                                        *)
(***************************************************************************)
\* latencies (ns) below and above one microsecond
SummaryLatencies == {0, 1000 * MaxLatency + 500}

InitSummary ==
    /\ MetricsNew /\ CallersInit /\ HistoryInit
    /\ RagIdle /\ MockNew
    /\ TrackerNew /\ SamplersInit
    /\ RunIdle

\* metrics.record_success(l, b)
CallRecordSuccess(l, b) ==
    /\ operations_completed + operations_failed < MaxCalls
    /\ RecordSuccess(l, b)
    /\ UNCHANGED <<callerVars, historyVars, trackerVars, runVars, ragVars,
                   mockVars, reportVars>>

\* metrics.record_failure()
CallRecordFailure ==
    /\ operations_completed + operations_failed < MaxCalls
    /\ RecordFailure
    /\ UNCHANGED <<callerVars, historyVars, trackerVars, runVars, ragVars,
                   mockVars, reportVars>>

\* let summary = metrics.summary()
CallSummary ==
    /\ summary_out' = <<summary>>
    /\ UNCHANGED <<metricsVars, trackerVars, runVars, ragVars, mockVars,
                   leak_out>>

NextSummary ==
    \/ \E l \in SummaryLatencies, b \in ByteCounts : CallRecordSuccess(l, b)
    \/ CallRecordFailure
    \/ CallSummary

SpecSummary == InitSummary /\ [][NextSummary]_vars

(***************************************************************************)
(* SpecLeaks: record_initial, sample and check_for_leaks() called one      *)
(* after the other on one tracker.                                         *)
(***************************************************************************)
\* memory readings: 0 (no reading), and values whose quotients lie below,
\* at and above MAX_MEMORY_GROWTH_RATIO
LeakMemoryValues == 0..(2 * MAX_MEMORY_GROWTH_RATIO - 1)

InitLeaks ==
    /\ MetricsNew /\ CallersInit /\ HistoryInit
    /\ RagIdle /\ MockNew
    /\ TrackerNew /\ SamplersInit
    /\ RunIdle

\* memory_tracker.record_initial()
CallRecordInitial(m) ==
    /\ ripc = "new"
    /\ RecordInitial(m)
    /\ ripc' = "recorded"
    /\ UNCHANGED <<tpc, loc_current, loc_peak, calls_sample, max_sampled>>
    /\ UNCHANGED <<metricsVars, runVars, ragVars, mockVars, reportVars>>

\* memory_tracker.sample()
CallSample(m) ==
    /\ ripc = "recorded"
    /\ sample_count < MaxSamples
    /\ Sample(m)
    /\ UNCHANGED <<samplerVars, metricsVars, runVars, ragVars, mockVars,
                   reportVars>>

\* let memory_result = memory_tracker.check_for_leaks()
CallCheckForLeaks ==
    /\ leak_out' = <<check_for_leaks>>
    /\ UNCHANGED <<metricsVars, trackerVars, runVars, ragVars, mockVars,
                   summary_out>>

NextLeaks ==
    \/ \E m \in LeakMemoryValues : CallRecordInitial(m)
    \/ \E m \in LeakMemoryValues : CallSample(m)
    \/ CallCheckForLeaks

SpecLeaks == InitLeaks /\ [][NextLeaks]_vars

(***************************************************************************)
(* Claims about the metrics recorder, checked under SpecMetrics.           *)
(***************************************************************************)

\* C1: once every record_success / record_failure call has returned,
\* operations_completed is the number of record_success calls made,
\* operations_failed the number of record_failure calls made, and their
\* sum the number of calls: no increment is lost, whatever the interleaving.
C1_NoIncrementLost ==
    AllReturned =>
        /\ operations_completed = calls_success
        /\ operations_failed = calls_failure
        /\ operations_completed + operations_failed
               = calls_success + calls_failure

\* C1 witness: all calls of the run returned, successes and failures among
\* them.
C1_Witness ==
    /\ AllReturned
    /\ calls_success + calls_failure = MaxCalls
    /\ calls_success >= 2
    /\ calls_failure >= 1
    /\ operations_completed + operations_failed = MaxCalls

\* C2: after all calls have returned (at least one record_success among
\* them), min_latency_ns <= L <= max_latency_ns for every recorded latency L.
C2_FinalMinMaxBound ==
    (AllReturned /\ calls_success >= 1) =>
        \A L \in counted_latencies :
            min_latency_ns <= L /\ L <= max_latency_ns

\* C2 witness: all calls returned and two different latencies were recorded.
C2_Witness ==
    /\ AllReturned
    /\ Cardinality(counted_latencies) >= 2
    /\ min_latency_ns < max_latency_ns

\* C3 as stated: whenever operations_completed >= 1, every latency already
\* counted in operations_completed lies between min_latency_ns and
\* max_latency_ns.
C3_CountedWithinMinMax ==
    operations_completed >= 1 =>
        \A L \in counted_latencies :
            min_latency_ns <= L /\ L <= max_latency_ns

\* C3 amended: in every reachable state, also in the middle of other
\* callers' record_success calls, min_latency_ns <= L <= max_latency_ns for
\* every latency L whose record_success call has returned.
C3_ReturnedWithinMinMax ==
    \A L \in returned_latencies :
        min_latency_ns <= L /\ L <= max_latency_ns

\* C3 witness: a call has returned while another call, already counted in
\* operations_completed, has not yet updated the extremes.
C3_Witness ==
    /\ returned_latencies # {}
    /\ \E c \in Callers :
          /\ mpc[c] \in {"rs_bytes", "rs_total", "rs_min_load", "rs_min_cas"}
          /\ arg_latency[c] < min_latency_ns

\* C4: a summary taken after all calls have returned is consistent across
\* fields: operations_completed is the number of successes, the latency total
\* is the sum of their latencies and bytes_processed the sum of their bytes.
C4_FinalSummaryConsistent ==
    AllReturned =>
        /\ summary.operations_completed = calls_success
        /\ total_latency_ns = sum_latency
        /\ summary.bytes_processed = sum_bytes
        /\ summary.avg_latency_us
             = (IF calls_success > 0
                  THEN (sum_latency \div calls_success) \div 1000 ELSE 0)

\* C4 witness: a final summary over several successes with latency and bytes.
C4_Witness ==
    /\ AllReturned
    /\ calls_success >= 2
    /\ sum_latency >= 2
    /\ sum_bytes >= 200
    /\ summary.bytes_processed = sum_bytes

\* C4, second half: while calls are in progress the fields can disagree (a
\* success is counted whose latency and bytes are not yet added).  This
\* predicate is reachable.
MidRunInconsistent ==
    /\ ~AllReturned
    /\ operations_completed = calls_success
    /\ total_latency_ns < sum_latency
    /\ bytes_written < sum_bytes

(***************************************************************************)
(* Claims about the scenario runs, checked under Spec.                     *)
(***************************************************************************)
\* a task holds a unit of the semaphore: acquired and not yet released
HoldsPermit(t) ==
    pc[t] \in {"write", "wrote", "push", "sample", "lookup", "read",
               "did_read", "release", "hung"}

\* number of operations in flight
InFlight == Cardinality({t \in RunTasks : HoldsPermit(t)})

\* C5: in the sustained mixed run the number of operations in flight (tasks
\* holding a semaphore unit) never exceeds the semaphore's bound, whatever
\* the number of tasks.
C5_InFlightBounded ==
    scenario = "mixed" =>
        /\ InFlight <= SEMAPHORE_PERMITS
        /\ permits >= 0

\* C5 witness: the bound is reached while a further task waits for a unit.
C5_Witness ==
    /\ scenario = "mixed"
    /\ NumTasks > SEMAPHORE_PERMITS
    /\ InFlight = SEMAPHORE_PERMITS
    /\ \E t \in RunTasks : pc[t] = "acquire"

\* a task has left barrier.wait(); a task has reached barrier.wait()
PastBarrier(t) == pc[t] \notin {"unspawned", "start", "waiting"}
Arrived(t) == pc[t] \notin {"unspawned", "start"}

\* no task is past the barrier before every task of the run has arrived, and
\* once all tasks are spawned the barrier's participant count is their number
BarrierHolds ==
    /\ (\E t \in RunTasks : PastBarrier(t)) => (\A u \in RunTasks : Arrived(u))
    /\ hpc \in {"join", "quiet", "mid_sample", "churn", "report"}
          => barrier_n = NumTasks

\* C6 as stated: in every run all worker tasks rendezvous at a barrier (whose
\* participant count is the number of tasks spawned) before any of them
\* issues an operation.
C6_AllRunsUseBarrier == BarrierHolds

\* C6 amended: this holds in the sustained mixed, burst and high-contention
\* runs; the insertion tasks of the memory-pressure run use no barrier.
C6_BarrierBeforeFirstOperation == scenario # "pressure" => BarrierHolds

\* C6 witness: in the second burst, with its own barrier, a task has issued
\* its write after all tasks of the burst arrived.
C6_Witness ==
    /\ scenario = "burst"
    /\ burst = 1
    /\ barrier_n = concurrent_per_burst
    /\ \E t \in RunTasks : pc[t] = "wrote"
    /\ \A u \in RunTasks : Arrived(u)

\* C7: if the timeout elapses before all tasks have joined, the sustained
\* mixed run ends as timed out (a failure), whatever the success rate and
\* the leak report.
C7_TimeoutIsHardFailure ==
    (scenario = "mixed" /\ result = "elapsed" /\ hpc = "finished")
        => verdict = "timed_out"

\* C7 witness: a run that timed out although its metrics pass both other
\* assertions.
C7_Witness ==
    /\ scenario = "mixed"
    /\ result = "elapsed"
    /\ verdict = "timed_out"
    /\ SuccessRateAbove(95, 100)
    /\ ~possible_leak
    /\ \E t \in RunTasks : pc[t] # "done"

\* C8 as stated: every run is bounded by a deadline; when the task the test
\* body is waiting for never completes, the test body can still take a step
\* (the timeout) instead of waiting indefinitely.
C8_EveryRunDeadlineBounded ==
    (hpc = "join" /\ pc[join_idx] = "hung") => ENABLED HarnessStep

\* the Err results whose handling by the task is still to come
ErrorsPending ==
    Cardinality({t \in RunTasks :
                    pc[t] \in {"wrote", "did_read"} /\ last[t] = "err"})

\* C9 as stated: every Err returned by the collaborator is recorded by
\* exactly one record_failure() call, and no task is aborted by it.
C9_EveryErrorRecordedOnce ==
    /\ operations_failed + ErrorsPending = errors_returned
    /\ \A t \in RunTasks : pc[t] # "panicked"

(***************************************************************************)
(* Claims about the memory tracker, checked under SpecTracker.             *)
(***************************************************************************)

\* C10: once record_initial() has returned, no step of any interleaving of
\* concurrent sample() calls decreases peak_bytes.
C10_PeakNeverDecreases ==
    [][ripc = "recorded" => peak_bytes' >= peak_bytes]_vars

\* C10 witness: samples raised the peak above the initial value, and a later
\* sample stored a smaller current value without lowering it.
C10_Witness ==
    /\ ripc = "recorded"
    /\ sample_count >= 2
    /\ peak_bytes > initial_bytes
    /\ current_bytes < peak_bytes


(***************************************************************************)
(* Claims about check_for_leaks(), checked under SpecLeaks.                *)
(***************************************************************************)
\* peak / initial of a report, 1.0 when initial is 0, from the report's own
\* initial_bytes and peak_bytes
RatioOf(r) ==
    IF r.initial_bytes = 0 THEN <<1, 1>> ELSE <<r.peak_bytes, r.initial_bytes>>

\* final > initial and peak / initial > th
LeakAt(r, th) ==
    /\ r.final_bytes > r.initial_bytes
    /\ FracAbove(RatioOf(r), th, 1)

\* threshold ratios a caller might ask for
Thresholds == {2, MAX_MEMORY_GROWTH_RATIO}

\* the report of the worked example initial = 100, peak = 250, current = 250,
\* in units of 50 bytes
ExampleReport(r) ==
    /\ r.initial_bytes = 2
    /\ r.peak_bytes = 5
    /\ r.final_bytes = 5

\* C11 (as stated): for every threshold ratio th handed to the check, the
\* report has possible_leak = true exactly when final > initial and
\* peak / initial > th; initial = 100, peak = 250, current = 250 is flagged
\* for th = 2.0 and not flagged for th = 3.0.
C11_LeakIffAboveGivenThreshold ==
    \A th \in Thresholds :
        leak_out # <<>> =>
            (leak_out[1].possible_leak <=> LeakAt(leak_out[1], th))

\* C11 (amended): check_for_leaks() takes no threshold; its report has
\* possible_leak = true exactly when final > initial and peak / initial >
\* MAX_MEMORY_GROWTH_RATIO (3.0), with growth_ratio = peak / initial, 1.0
\* when initial is 0; initial = 100, peak = 250, current = 250 gives
\* growth_ratio = 2.5 and possible_leak = false.
C11_LeakIffAboveFixedRatio ==
    leak_out # <<>> =>
        LET r == leak_out[1] IN
            /\ r.possible_leak <=> LeakAt(r, MAX_MEMORY_GROWTH_RATIO)
            /\ r.growth_ratio[2] # 0
            /\ FracEq(r.growth_ratio, RatioOf(r)[1], RatioOf(r)[2])
            /\ ExampleReport(r) =>
                   (~r.possible_leak /\ FracEq(r.growth_ratio, 5, 2))

C11_Witness ==
    /\ leak_out # <<>>
    /\ ExampleReport(leak_out[1])
    /\ leak_out[1].samples_taken > 0

\* C12: a report taken on a tracker whose initial_bytes is 0 has
\* possible_leak = false and growth_ratio = 1.0, whatever peak and current
\* are, and no report's growth_ratio is a quotient by zero.
C12_ZeroBaselineNeverFlagged ==
    leak_out # <<>> =>
        LET r == leak_out[1] IN
            /\ r.growth_ratio[2] # 0
            /\ r.initial_bytes = 0 =>
                   (~r.possible_leak /\ r.growth_ratio = <<1, 1>>)

C12_Witness ==
    /\ leak_out # <<>>
    /\ leak_out[1].initial_bytes = 0
    /\ leak_out[1].peak_bytes > MAX_MEMORY_GROWTH_RATIO
    /\ leak_out[1].final_bytes > 0

(***************************************************************************)
(* Claims about summary(), checked under SpecSummary.                      *)
(***************************************************************************)
\* C13: a summary taken when no operation was recorded has success_rate 0.0
\* and avg_latency_us 0; avg_latency_us is 0 whenever operations_completed
\* is 0, also when failures were recorded; no summary holds a quotient by
\* zero.
C13_SummaryOfNothingIsZero ==
    summary_out # <<>> =>
        LET s == summary_out[1] IN
            /\ s.success_rate[2] # 0
            /\ s.operations_completed = 0 => s.avg_latency_us = 0
            /\ (s.operations_completed = 0 /\ s.operations_failed = 0) =>
                   s.success_rate = <<0, 1>>

C13_Witness ==
    /\ summary_out # <<>>
    /\ summary_out[1].operations_completed = 0
    /\ summary_out[1].operations_failed > 0
    /\ summary_out[1].avg_latency_us = 0

\* C20: success_rate is completed / (completed + failed) when completed +
\* failed > 0 and 0 otherwise: 0 when only failures were recorded, 1 when
\* only successes were recorded.
C20_SuccessRateIsCompletedShare ==
    summary_out # <<>> =>
        LET s == summary_out[1]
            c == s.operations_completed
            f == s.operations_failed
        IN  /\ s.success_rate[2] > 0
            /\ IF c + f > 0 THEN FracEq(s.success_rate, c, c + f)
                            ELSE FracEq(s.success_rate, 0, 1)
            /\ (c = 0 /\ f > 0) => FracEq(s.success_rate, 0, 1)
            /\ (c > 0 /\ f = 0) => FracEq(s.success_rate, 1, 1)

C20_Witness ==
    /\ summary_out # <<>>
    /\ summary_out[1].operations_completed > 0
    /\ summary_out[1].operations_failed > summary_out[1].operations_completed


(***************************************************************************)
(* Claims about termination of the calls, checked under SpecCalls.         *)
(***************************************************************************)
\* a caller is inside a compare-and-retry loop only while its candidate beats
\* the extreme it last saw
LoopsOnlyWhileBetter ==
    \A c \in Callers :
        /\ mpc[c] = "rs_min_cas" => arg_latency[c] < loc_min[c]
        /\ mpc[c] = "rs_max_cas" => arg_latency[c] > loc_max[c]
        /\ tpc[c] = "sm_peak_cas" => loc_current[c] > loc_peak[c]

\* a step in which caller c's exchange succeeds takes c out of the loop
StopsOnSuccess ==
    \A c \in Callers :
        /\ (mpc[c] = "rs_min_cas" /\ min_latency_ns' # min_latency_ns
               /\ mpc'[c] # mpc[c]) => mpc'[c] = "rs_max_load"
        /\ (mpc[c] = "rs_max_cas" /\ max_latency_ns' # max_latency_ns
               /\ mpc'[c] # mpc[c]) => mpc'[c] = "idle"
        /\ (tpc[c] = "sm_peak_cas" /\ peak_bytes' # peak_bytes
               /\ tpc'[c] # tpc[c]) => tpc'[c] = "idle"

\* C14: under fair scheduling every record_success, record_failure and
\* sample() call returns, whatever the other callers do; the retry loops for
\* min latency, max latency and peak memory run only while the candidate
\* beats the extreme last seen and stop when the exchange succeeds.
C14_EveryCallReturns ==
    /\ \A c \in Callers : (mpc[c] # "idle") ~> (mpc[c] = "idle")
    /\ \A c \in Callers : (tpc[c] # "idle") ~> (tpc[c] = "idle")
    /\ []LoopsOnlyWhileBetter
    /\ [][StopsOnSuccess]_vars

\* a caller of record_success whose exchange is about to fail: another
\* caller lowered the minimum meanwhile and has returned
C14_Witness ==
    \E c, d \in Callers :
        /\ mpc[c] = "rs_min_cas"
        /\ min_latency_ns # loc_min[c]
        /\ arg_latency[c] < min_latency_ns
        /\ mpc[d] = "idle"


(***************************************************************************)
(* Claims about the key registry, checked under SpecRegistry.              *)
(***************************************************************************)
Readers == {t \in TaskIds : Role(t) = "reader"}

\* a reader at its lookup is never made to wait
LookupNeverBlocks ==
    \A t \in Readers : (Running /\ pc[t] = "lookup") => ENABLED ReaderLookup(t)

\* the step a reader takes from its lookup when the registry is empty, and
\* the step that ends an iteration
SkipsOnEmpty ==
    \A t \in Readers :
        /\ (pc[t] = "lookup" /\ keys = <<>> /\ pc'[t] # "lookup") =>
               /\ pc'[t] = "release"
               /\ read_count' = read_count
               /\ UNCHANGED <<metricsFields, data, op_i, permits>>
        /\ (pc[t] = "release" /\ pc'[t] # "release") =>
               /\ permits' = permits + 1
               /\ op_i'[t] = op_i[t] + 1
               /\ pc'[t] = LoopHead(t, op_i[t] + 1)

\* C15: a reader that finds the registry empty does not wait for a key: it
\* ends the iteration without a storage read and without recording an
\* outcome, gives its in-flight unit back and goes on with the next index
\* of its budget.
C15_EmptyRegistrySkips ==
    /\ []LookupNeverBlocks
    /\ [][SkipsOnEmpty]_vars

\* a reader is at its second operation, having skipped the first
C15_Witness ==
    \E t \in Readers :
        /\ pc[t] = "lookup"
        /\ op_i[t] = 1
        /\ keys = <<>>
        /\ read_count = 0

\* the step in which a reader picks its key
PicksWithinRegistry ==
    \A t \in Readers :
        (pc[t] = "lookup" /\ pc'[t] = "read") =>
            LET n == Len(keys)
                idx == op_i[t] % n
            IN  /\ n > 0
                /\ idx \in 0..(n - 1)
                /\ cur_key'[t] = keys[idx + 1]

\* C16: operation number i of a reader reads registry[i mod n], n being the
\* length of the registry at the lookup; the index lies within the registry
\* and the key read is one a writer appended, in every interleaving with
\* the writers' appends.
C16_IndexWithinRegistry ==
    /\ [][PicksWithinRegistry]_vars
    /\ [](\A t \in Readers :
             pc[t] \in {"read", "did_read"} =>
                 \E k \in DOMAIN keys : keys[k] = cur_key[t])

\* a reader's index has run past the registry's length and wrapped around
C16_Witness ==
    \E t \in Readers :
        /\ pc[t] = "read"
        /\ op_i[t] >= Len(keys)
        /\ op_i[t] > 0
        /\ cur_key[t] = keys[(op_i[t] % Len(keys)) + 1]

(***************************************************************************)
(* Claims about the end of the runs, checked under Spec.                   *)
(***************************************************************************)
\* C17: when the sustained mixed run has completed (every task joined before
\* the deadline) and the collaborator failed no write, the storage holds
\* CONCURRENT_WRITERS * ops_per_writer entries, one per write of the budget.
C17_StorageHoldsEveryWrite ==
    (scenario = "mixed" /\ hpc = "finished" /\ result = "ok"
       /\ errors_returned = 0) =>
        /\ Cardinality(DOMAIN data) = CONCURRENT_WRITERS * ops_per_writer
        /\ Len(keys) = CONCURRENT_WRITERS * ops_per_writer

C17_Witness ==
    /\ scenario = "mixed"
    /\ hpc = "finished"
    /\ result = "ok"
    /\ errors_returned = 0
    /\ Cardinality(DOMAIN data) = CONCURRENT_WRITERS * ops_per_writer
    /\ Cardinality(DOMAIN data) > 1

\* the keys written before the tasks start
SharedKeys == {<<0, 0, k>> : k \in 0..(num_shared_keys - 1)}

\* C18: in the high-contention run the storage holds exactly the
\* pre-populated keys in every state after pre-population, whatever the
\* tasks' writes and reads and their order.
C18_ContentionKeepsKeySet ==
    (scenario = "contention" /\ hpc # "prepopulate") =>
        /\ DOMAIN data = SharedKeys
        /\ Cardinality(DOMAIN data) = num_shared_keys

C18_Witness ==
    /\ scenario = "contention"
    /\ hpc = "finished"
    /\ write_count >= num_shared_keys + concurrent_tasks * ops_per_task
    /\ Cardinality(DOMAIN data) = num_shared_keys

\* operations of all bursts: every task of every burst runs ops_per_burst /
\* concurrent_per_burst operations
BurstBudget == burst_count * concurrent_per_burst * ops_per_burst_task

\* C19: when the burst run has finished, completed + failed is the number of
\* operations of all bursts (burst_count * ops_per_burst when the tasks
\* divide a burst evenly), one outcome per operation; with no error from
\* the collaborator all of them succeeded and the success rate is above
\* 0.99.
C19_BurstOutcomesAddUp ==
    (scenario = "burst" /\ hpc = "finished") =>
        /\ operations_completed + operations_failed = BurstBudget
        /\ operations_failed = errors_returned
        /\ ops_per_burst % concurrent_per_burst = 0 =>
               BurstBudget = burst_count * ops_per_burst
        /\ errors_returned = 0 =>
               /\ operations_completed = BurstBudget
               /\ SuccessRateAbove(99, 100)
               /\ verdict = "passed"

C19_Witness ==
    /\ scenario = "burst"
    /\ hpc = "finished"
    /\ burst = burst_count
    /\ operations_failed > 0
    /\ operations_completed + operations_failed = BurstBudget

(***************************************************************************)
(* Claims about the direction in which the StressMetrics fields move and   *)
(* about what each method leaves alone, checked under SpecMetrics.         *)
(***************************************************************************)
\* one step moves every counter and the maximum up or not at all, and the
\* minimum down or not at all
MonotoneStep ==
    /\ operations_completed' >= operations_completed
    /\ operations_failed' >= operations_failed
    /\ bytes_written' >= bytes_written
    /\ bytes_read' >= bytes_read
    /\ total_latency_ns' >= total_latency_ns
    /\ max_latency_ns' >= max_latency_ns
    /\ min_latency_ns' <= min_latency_ns

\* C21: across every step of any interleaving of record_success and
\* record_failure calls, operations_completed, operations_failed,
\* bytes_written, bytes_read, total_latency_ns and max_latency_ns never
\* decrease and min_latency_ns never increases.
C21_FieldsMoveOneWay == [][MonotoneStep]_vars

\* C21 witness: all calls have returned after two record_success calls with
\* different latencies, recorded in either order, and a record_failure call,
\* so the minimum was lowered and the maximum raised by competing callers.
C21_Witness ==
    /\ AllReturned
    /\ calls_success >= 2
    /\ calls_failure >= 1
    /\ min_latency_ns < max_latency_ns
    /\ bytes_written > 0
    /\ total_latency_ns > 0

(***************************************************************************)
(* Claims about the task loops of the scenarios, checked under Spec.       *)
(***************************************************************************)
\* number of loop iterations the tasks of T have completed
RECURSIVE OperationsOf(_)
OperationsOf(T) ==
    IF T = {} THEN 0
    ELSE LET t == CHOOSE u \in T : TRUE
         IN  op_i[t] + OperationsOf(T \ {t})

\* number of storage calls of the tasks that have returned
StorageCallsReturned == write_count + read_count + errors_returned

\* C22 as stated: in the sustained mixed run the operations performed by all
\* writer tasks and all reader tasks together never exceed TOTAL_OPERATIONS,
\* and the loop iterations of all tasks come to TOTAL_OPERATIONS once every
\* task has ended.
C22_OperationsWithinBudget ==
    scenario = "mixed" =>
        /\ StorageCallsReturned <= TOTAL_OPERATIONS
        /\ (\A t \in RunTasks : pc[t] = "done") =>
               OperationsOf(RunTasks) = TOTAL_OPERATIONS

\* C23 as stated: the bytes of a read are added to bytes_read, so once a
\* reader has recorded a successful read (it is about to release its
\* semaphore unit) bytes_read is at least the length of the value returned,
\* and bytes_written holds the bytes of the writes only.
C23_ReadBytesInBytesRead ==
    \A t \in TaskIds :
        (/\ scenario = "mixed"
         /\ Role(t) = "reader"
         /\ pc[t] = "release"
         /\ last[t] = "some"
         /\ cur_key[t] \in DOMAIN data)
            => bytes_read >= ValueLen(data[cur_key[t]])

\* a step of a run with a MemoryTracker changes initial_bytes only as the
\* record_initial() call of the test body, which is taken once, with no task
\* spawned and no sample taken
InitialWrittenFirst ==
    /\ initial_bytes' # initial_bytes =>
           hpc = "record_initial" /\ hpc' # "record_initial"
    /\ hpc # "record_initial" => hpc' # "record_initial"
    /\ hpc = "record_initial" =>
           /\ \A t \in TaskIds : pc[t] = "unspawned"
           /\ sample_count = 0

\* C24: in the runs that use a MemoryTracker (sustained mixed and memory
\* pressure) initial_bytes is written once, by the record_initial() call
\* that precedes the spawning of every task and every sample() call, and no
\* later step changes it.
C24_InitialBytesWrittenOnceFirst == [][InitialWrittenFirst]_vars

\* C24 witness: tasks are running, a sample different from the baseline has
\* been taken, and the non-zero baseline is still in place.
C24_Witness ==
    /\ scenario \in {"mixed", "pressure"}
    /\ hpc = "join"
    /\ initial_bytes > 0
    /\ sample_count >= 1
    /\ current_bytes # initial_bytes
    /\ \E t \in RunTasks : pc[t] \notin {"unspawned", "done"}

\* a storage call of task t has returned and the task has not yet handled
\* its result
ResultPending(t) == pc[t] \in {"wrote", "did_read"}

\* the step of task t that handles a returned call records its outcome: Ok
\* as a success, Err as a failure (the insertion tasks of the
\* memory-pressure run perform one operation each and keep no metrics)
RecordsOutcome(t) ==
    CASE Role(t) = "insert" -> TRUE
      [] last[t] \in {"ok", "some"} ->
             /\ operations_completed' = operations_completed + 1
             /\ operations_failed' = operations_failed
      [] last[t] = "err" ->
             /\ operations_failed' = operations_failed + 1
             /\ operations_completed' = operations_completed
      [] OTHER -> UNCHANGED metricsFields

\* the loop index of a task advances by one, from the end of the handling
\* of the operation before (it restarts at zero for the tasks of the next
\* burst); the step that takes the task past a returned call towards its
\* next operation records the outcome of the call; a call in flight can
\* only return
IssuesInOrder(t) ==
    /\ op_i'[t] # op_i[t] =>
           \/ /\ op_i'[t] = op_i[t] + 1
              /\ pc[t] \in {"release", "wrote", "did_read"}
           \/ /\ hpc = "quiet"
              /\ op_i'[t] = 0
    /\ (ResultPending(t) /\ pc'[t] \notin {pc[t], "done", "panicked"}) =>
           RecordsOutcome(t)
    /\ (pc[t] \in {"write", "read"} /\ pc'[t] # pc[t]) =>
           /\ pc'[t] \in {"wrote", "did_read", "hung"}
           /\ op_i'[t] = op_i[t]

\* C25 as stated: within one task the operations execute in the order of
\* the loop, and operation i+1 is issued only after the call of operation i
\* has returned and its outcome has been recorded.
C25_OutcomeRecordedBeforeNext == [][\A t \in TaskIds : IssuesInOrder(t)]_vars

\* a record_failure() call (the step that counts one) adds one to
\* operations_failed and leaves the other fields alone; every other step,
\* which is a step of a record_success call, leaves operations_failed alone
FailureFrame ==
    IF calls_failure' # calls_failure
      THEN /\ operations_failed' = operations_failed + 1
           /\ UNCHANGED <<operations_completed, bytes_written, bytes_read,
                          min_latency_ns, max_latency_ns, total_latency_ns>>
      ELSE operations_failed' = operations_failed

\* C26: record_failure() increments operations_failed by exactly one and
\* leaves operations_completed, bytes_written, bytes_read, min_latency_ns,
\* max_latency_ns and total_latency_ns unchanged; no step of record_success
\* changes operations_failed.
C26_FailureTouchesOnlyFailed == [][FailureFrame]_vars

\* C26 witness: a record_failure() call has been counted, a record_success
\* call has updated its counters, and a record_success call is under way.
C26_Witness ==
    /\ calls_failure >= 1
    /\ operations_failed = calls_failure
    /\ operations_completed >= 1
    /\ \E c \in Callers : mpc[c] \notin {"idle", "rs_completed"}
    /\ total_latency_ns > 0

\* the semaphore of the sustained mixed run exists (the test body is past
\* Semaphore::new)
SemaphoreCreated ==
    scenario = "mixed" /\ hpc \in {"spawn", "join", "report", "finished"}

\* C27: in the sustained mixed run the units missing from the semaphore are
\* exactly those held by operations still under way, whatever the outcome of
\* the operations that ended (Ok, Err, or a reader's skip on an empty
\* registry); once all tasks have finished, all SEMAPHORE_PERMITS units are
\* available.
C27_UnitsReturned ==
    SemaphoreCreated =>
        /\ permits + InFlight = SEMAPHORE_PERMITS
        /\ (\A t \in RunTasks : pc[t] = "done") => permits = SEMAPHORE_PERMITS

\* C27 witness: all tasks have finished after a storage call returned Err and
\* a reader skipped an iteration (fewer outcomes recorded than iterations
\* run), and the semaphore is full again.
C27_Witness ==
    /\ SemaphoreCreated
    /\ \A t \in RunTasks : pc[t] = "done"
    /\ errors_returned > 0
    /\ operations_completed + operations_failed < OperationsOf(RunTasks)
    /\ operations_completed > 0
    /\ permits = SEMAPHORE_PERMITS

\* the keys of the registry, as a set
RegistryKeys == {keys[n] : n \in 1..Len(keys)}

\* the writers of the sustained mixed run have all ended
WritersDone ==
    \A t \in RunTasks : Role(t) = "writer" => pc[t] = "done"

\* in every state every registry key is in storage, no key is registered
\* twice, and there are no more keys than successful writes; after all
\* writers have finished there are as many
RegistryOfWrittenKeys ==
    scenario = "mixed" =>
        /\ RegistryKeys \subseteq DOMAIN data
        /\ Cardinality(RegistryKeys) = Len(keys)
        /\ Len(keys) <= write_count
        /\ WritersDone => Len(keys) = write_count

\* a step appends to the registry or leaves it alone
RegistryGrows ==
    /\ Len(keys') >= Len(keys)
    /\ SubSeq(keys', 1, Len(keys)) = keys

\* C28: the key registry of the sustained mixed run contains only keys whose
\* write returned Ok: every registry key is present in storage in every
\* reachable state, the registry never shrinks, and after all writers have
\* finished its length is the number of successful writes.
C28_RegistryHoldsWrittenKeys ==
    [](RegistryOfWrittenKeys) /\ [][RegistryGrows]_vars

\* C28 witness: all writers have finished, one write returned Err and
\* another Ok, and the registry holds the key of the successful write only.
C28_Witness ==
    /\ scenario = "mixed"
    /\ WritersDone
    /\ errors_returned > 0
    /\ operations_failed > 0
    /\ Len(keys) >= 1
    /\ Len(keys) = write_count
    /\ Len(keys) < CONCURRENT_WRITERS * ops_per_writer

\* number of operations of one burst
OpsOfOneBurst == concurrent_per_burst * ops_per_burst_task

\* the tasks waiting at the barrier of the current burst
WaitingAtBarrier ==
    {t \in RunTasks : pc[t] = "waiting" /\ wait_gen[t] = barrier_gen}

\* while tasks of burst number `burst` exist, the outcomes of all operations
\* of the bursts before are recorded and every key in storage is of this
\* burst or an earlier one; the barrier has one participant per task of the
\* burst and counts arrivals of this burst only
BurstsApart ==
    (scenario = "burst" /\ hpc \in {"spawn", "join"}) =>
        /\ operations_completed + operations_failed >= burst * OpsOfOneBurst
        /\ operations_completed + operations_failed
               <= (burst + 1) * OpsOfOneBurst
        /\ \A k \in DOMAIN data : k[1] <= burst
        /\ barrier_n = concurrent_per_burst
        /\ barrier_arrived = Cardinality(WaitingAtBarrier)

\* the next burst begins only when every task of the current one has ended,
\* and begins with a new barrier
NextBurstAfterJoin ==
    /\ burst' # burst =>
           /\ burst' = burst + 1
           /\ \A t \in RunTasks : pc[t] = "done"
    /\ (scenario = "burst" /\ hpc = "setup" /\ hpc' # hpc) =>
           /\ barrier_n' = concurrent_per_burst
           /\ barrier_arrived' = 0
           /\ \A t \in RunTasks : pc[t] = "unspawned"

\* C29: bursts never overlap: no task of burst k+1 is spawned, and so none
\* issues an operation, before every task of burst k has ended and been
\* joined; each burst has a barrier of its own with as many participants as
\* the burst has tasks.
C29_BurstsNeverOverlap == [](BurstsApart) /\ [][NextBurstAfterJoin]_vars

\* C29 witness: a task of the second burst issues its write, past the second
\* barrier, with the outcomes of the first burst all recorded.
C29_Witness ==
    /\ scenario = "burst"
    /\ burst = 1
    /\ hpc = "join"
    /\ \E t \in RunTasks : pc[t] = "write"
    /\ \E t \in RunTasks : pc[t] = "done"
    /\ operations_completed + operations_failed > OpsOfOneBurst
    /\ barrier_n = concurrent_per_burst

\* the memory-pressure run is past its bulk phase (the join loop returned)
PastBulkPhase ==
    /\ scenario = "pressure"
    /\ \/ hpc \in {"mid_sample", "churn", "report"}
       \/ hpc = "finished" /\ verdict # "panicked"

\* past the bulk phase every insertion task has completed and storage holds
\* the pressure_keys keys; when the churn phase is over it has made its reads
\* over the first churn_prefix keys, and no read before the bulk phase ended
ChurnAfterBulk ==
    /\ PastBulkPhase =>
           /\ \A t \in RunTasks : pc[t] = "done"
           /\ Cardinality(DOMAIN data) = pressure_keys
           /\ write_count = pressure_keys
    /\ (scenario = "pressure" /\ ~PastBulkPhase) => read_count = 0
    /\ (scenario = "pressure" /\ hpc = "report") =>
           read_count = churn_rounds * Min2(churn_prefix, pressure_keys)

\* no step after the bulk phase changes the storage contents
ChurnKeepsStorage ==
    PastBulkPhase => (data' = data /\ write_count' = write_count)

\* C30: the memory-pressure run has two phases: the churn phase issues its
\* first read only after every insertion task has completed, storage then
\* holds exactly the fixed number of keys (5000 in the source), and the
\* reads of the churn phase leave the storage contents and size unchanged.
C30_ChurnOnlyReadsFullStorage == [](ChurnAfterBulk) /\ [][ChurnKeepsStorage]_vars

\* C30 witness: the churn phase has read again in a later round, with all
\* insertion tasks completed and all keys in storage.
C30_Witness ==
    /\ scenario = "pressure"
    /\ hpc = "churn"
    /\ h_round >= 1
    /\ read_count > Min2(churn_prefix, pressure_keys)
    /\ Cardinality(DOMAIN data) = pressure_keys
    /\ \A t \in RunTasks : pc[t] = "done"

(***************************************************************************)
(* Claims about the periodic sampling of the writers, checked under        *)
(* SpecRegistry (writers with several operations each).                    *)
(***************************************************************************)
\* ceil(n / d) for d > 0
CeilDiv(n, d) == (n + d - 1) \div d

\* the loop iterations of writer t whose sampling point is behind it
SamplingPointsPassed(t) ==
    op_i[t] + (IF pc[t] = "release" THEN 1 ELSE 0)

\* the sample() calls a writer has made when n sampling points are behind
\* it: one at each index 0, MEMORY_CHECK_INTERVAL, 2 * MEMORY_CHECK_INTERVAL..
RECURSIVE SamplesDue(_)
SamplesDue(T) ==
    IF T = {} THEN 0
    ELSE LET t == CHOOSE u \in T : TRUE
         IN  (IF Role(t) = "writer"
                THEN CeilDiv(SamplingPointsPassed(t), MEMORY_CHECK_INTERVAL)
                ELSE 0)
             + SamplesDue(T \ {t})

InitLive ==
    /\ MetricsNew /\ CallersInit /\ HistoryInit
    /\ RagIdle /\ MockNew
    /\ TrackerNew /\ SamplersInit
    /\ scenario = "mixed"
    /\ storage_kind = "mock"
    /\ shape = "wide"
    /\ hpc = FirstStep(scenario)
    /\ RunNew

\* the steps of the test body other than the timeout
HarnessProgress ==
    \/ \E m \in RegistryMemoryValues : HarnessRecordInitial(m)
    \/ HarnessSetup
    \/ HarnessSpawn
    \/ HarnessJoin
    \/ HarnessReport

FairRun ==
    /\ WF_vars(HarnessProgress)
    /\ \A t \in TaskIds : WF_vars(MixedTaskStep(t))

SpecLive == InitLive /\ [][NextRegistry]_vars /\ FairRun

\* every task of the run has finished its loop
AllTasksDone == \A t \in RunTasks : pc[t] = "done"

\* while the test body waits in the join loop with tasks unfinished, some
\* task can take a step: no set of tasks waits for one another at the
\* barrier, the semaphore or a lock
SomeTaskCanStep ==
    (hpc = "join" /\ ~AllTasksDone) =>
        \E t \in RunTasks : ENABLED MixedTaskStep(t)

\* C32: the sustained mixed run is deadlock-free: with more tasks than
\* semaphore units, a barrier of as many participants as tasks, and storage
\* calls that return, under fair scheduling every writer and reader task
\* finishes its loop unless the timeout cuts the run short, and the test body
\* reaches its report; with all tasks finished the join completes.
C32_MixedRunCompletes ==
    /\ []SomeTaskCanStep
    /\ <>(AllTasksDone \/ result = "elapsed")
    /\ <>(hpc = "finished")
    /\ []((hpc = "finished" /\ result = "ok") => AllTasksDone)
    /\ []((hpc = "join" /\ AllTasksDone) => ENABLED HarnessJoin)

\* C32 witness: the run has ended with every task joined, no timeout, and
\* every operation of the writers done, in a run with more tasks than units.
C32_Witness ==
    /\ scenario = "mixed"
    /\ NumTasks > SEMAPHORE_PERMITS
    /\ hpc = "finished"
    /\ result = "ok"
    /\ AllTasksDone
    /\ write_count = CONCURRENT_WRITERS * ops_per_writer
    /\ permits = SEMAPHORE_PERMITS

(***************************************************************************)
(* Claims about the final values of the extremes, checked under            *)
(* SpecMetrics and SpecTracker.                                            *)
(***************************************************************************)
\* v is the least, the greatest element of the non-empty set S
IsMinOf(v, S) == v \in S /\ \A L \in S : v <= L
IsMaxOf(v, S) == v \in S /\ \A L \in S : L <= v

\* C33: after any interleaving of concurrent record_success calls, once all
\* calls have returned, min_latency_ns is exactly the smallest and
\* max_latency_ns exactly the largest of the recorded latencies; with
\* nothing recorded min_latency_ns is still the largest representable value
\* (and max_latency_ns zero).
C33_ExtremesAreExact ==
    AllReturned =>
        IF counted_latencies = {}
          THEN min_latency_ns = U64_MAX /\ max_latency_ns = 0
          ELSE /\ IsMinOf(min_latency_ns, counted_latencies)
               /\ IsMaxOf(max_latency_ns, counted_latencies)

\* C33 witness: all calls have returned after concurrent record_success
\* calls with different latencies, none of them zero, so the minimum is a
\* recorded value above zero.
C33_Witness ==
    /\ AllReturned
    /\ calls_success >= 2
    /\ Cardinality(counted_latencies) >= 2
    /\ 0 \notin counted_latencies
    /\ IsMinOf(min_latency_ns, counted_latencies)
    /\ min_latency_ns < max_latency_ns

\* C34: after record_initial() and once every concurrent sample() call has
\* returned, peak_bytes is the largest of the initial reading and all
\* sampled readings, hence peak_bytes >= current_bytes and
\* peak_bytes >= initial_bytes.  (While a sample() call is under way
\* peak_bytes < current_bytes is reachable: C34_Transient.)
C34_PeakIsLargestReading ==
    (ripc = "recorded" /\ AllSampled) =>
        /\ peak_bytes = max_sampled
        /\ peak_bytes >= current_bytes
        /\ peak_bytes >= initial_bytes

\* a sample() call has stored a reading above the peak and has not yet
\* raised the peak
C34_Transient ==
    /\ ripc = "recorded"
    /\ ~AllSampled
    /\ peak_bytes < current_bytes

\* C34 witness: all sample() calls of two concurrent callers have returned;
\* the peak is a sampled reading above the initial one, and the reading
\* stored last is below it.
C34_Witness ==
    /\ ripc = "recorded"
    /\ AllSampled
    /\ calls_sample >= 2
    /\ sample_count = calls_sample
    /\ peak_bytes = max_sampled
    /\ peak_bytes > initial_bytes
    /\ current_bytes < peak_bytes
    /\ initial_bytes > 0

(***************************************************************************)
(* Claims about runs against MockStorage, checked under Spec.              *)
(***************************************************************************)
\* C35: against MockStorage, whose write and read always return Ok,
\* operations_failed is 0 in every reachable state of every scenario; the
\* summary of a finished run with at least one recorded success has
\* success rate exactly 1.0, which is above each scenario's threshold
\* (0.95, 0.99, 0.999).
C35_MockNeverFails ==
    storage_kind = "mock" =>
        /\ operations_failed = 0
        /\ errors_returned = 0
        /\ (hpc = "finished" /\ summary_out # <<>>
                /\ summary_out[1].operations_completed >= 1) =>
               /\ FracEq(summary_out[1].success_rate, 1, 1)
               /\ FracAbove(summary_out[1].success_rate, 95, 100)
               /\ FracAbove(summary_out[1].success_rate, 99, 100)
               /\ FracAbove(summary_out[1].success_rate, 999, 1000)
               /\ verdict \notin {"low_success_rate"}

\* C35 witness: a high-contention run against MockStorage has finished and
\* passed with every write and read of every task recorded as a success.
C35_Witness ==
    /\ storage_kind = "mock"
    /\ scenario = "contention"
    /\ hpc = "finished"
    /\ summary_out # <<>>
    /\ summary_out[1].operations_completed = 2 * concurrent_tasks * ops_per_task
    /\ summary_out[1].operations_failed = 0
    /\ verdict = "passed"

(***************************************************************************)
(* RagPipeline::assemble_context (reasonkit-mem/src/rag/mod.rs).  A        *)
(* SearchResult is kept as the text of its chunk, a text as the sequence   *)
(* of its characters.                                                      *)
(***************************************************************************)
\* longest chunk text, longest list of results, largest token budget
MaxTextLen == 3
MaxResults == 2
MaxContextTokens == 2

\* the characters of the chunk texts: a letter and a space
Chars == {"w", " "}
ChunkTexts == UNION {[1..n -> Chars] : n \in 0..MaxTextLen}
ResultLists == UNION {[1..n -> ChunkTexts] : n \in 0..MaxResults}
RagConfigs ==
    [max_context_tokens : 0..MaxContextTokens, include_citations : BOOLEAN]

\* char::is_whitespace, for the characters that occur
IsWhitespace(ch) == ch \in {" ", "\n", "\t"}

\* chunk_text.split_whitespace().count(): the number of maximal runs of
\* non-whitespace characters
split_whitespace_count(text) ==
    Cardinality({i \in 1..Len(text) :
                    /\ ~IsWhitespace(text[i])
                    /\ i = 1 \/ IsWhitespace(text[i - 1])})

\* format!("{}", n)
RECURSIVE Decimal(_)
Decimal(n) ==
    LET digit == <<"0", "1", "2", "3", "4", "5", "6", "7", "8", "9">>
    IN  IF n < 10 THEN <<digit[n + 1]>>
        ELSE Decimal(n \div 10) \o <<digit[(n % 10) + 1]>>

\* format!("[{}] ", i + 1) for the result at position i (counted from 1
\* here, from 0 in the code)
Citation(i) == <<"[">> \o Decimal(i) \o <<"]", " ">>

\* the locals of assemble_context before the loop; `stopped` is the break
LoopStart == [context |-> <<>>, token_count |-> 0, stopped |-> FALSE]

\* (mutation of LoopBody: the budget is tested against the tokens already
\* taken, before the chunk is added)
LoopBody_late_check(cfg, res, acc, i) ==
    LET chunk_text == res[i]
        chunk_tokens == split_whitespace_count(chunk_text)
    IN  IF acc.token_count > cfg.max_context_tokens
          THEN [acc EXCEPT !.stopped = TRUE]
          ELSE [context |->
                    acc.context
                      \o (IF cfg.include_citations THEN Citation(i) ELSE <<>>)
                      \o chunk_text \o <<"\n", "\n">>,
                token_count |-> acc.token_count + chunk_tokens,
                stopped |-> FALSE]

\* (mutation of LoopBody: a chunk over the budget is skipped and the loop
\* goes on)
LoopBody_continue(cfg, res, acc, i) ==
    LET chunk_text == res[i]
        chunk_tokens == split_whitespace_count(chunk_text)
    IN  IF acc.token_count + chunk_tokens > cfg.max_context_tokens
          THEN acc
          ELSE [context |->
                    acc.context
                      \o (IF cfg.include_citations THEN Citation(i) ELSE <<>>)
                      \o chunk_text \o <<"\n", "\n">>,
                token_count |-> acc.token_count + chunk_tokens,
                stopped |-> FALSE]

\* the body of `for (i, result) in results.iter().enumerate()`
LoopBody(cfg, res, acc, i) ==
    LET chunk_text == res[i]
        chunk_tokens == split_whitespace_count(chunk_text)
    IN  IF acc.token_count + chunk_tokens > cfg.max_context_tokens
          THEN [acc EXCEPT !.stopped = TRUE]
          ELSE [context |->
                    acc.context
                      \o (IF cfg.include_citations THEN Citation(i) ELSE <<>>)
                      \o chunk_text \o <<"\n", "\n">>,
                token_count |-> acc.token_count + chunk_tokens,
                stopped |-> FALSE]

\* the loop from position i on
RECURSIVE RunLoop(_, _, _, _)
RunLoop(cfg, res, acc, i) ==
    IF i > Len(res) \/ acc.stopped THEN acc
    ELSE RunLoop(cfg, res, LoopBody(cfg, res, acc, i), i + 1)

\* RagPipeline::assemble_context(&self, results) -> RagContext
assemble_context(cfg, res) ==
    LET acc == RunLoop(cfg, res, LoopStart, 1)
    IN  [context |-> acc.context,
         sources |-> res,
         token_count |-> acc.token_count]

(***************************************************************************)
(* SpecRag: a pipeline with some configuration and a list of results, on   *)
(* which assemble_context is called.                                       *)
(***************************************************************************)
\* RagPipeline::new(config), and the results some retrieval handed over
RagNew ==
    /\ config \in RagConfigs
    /\ results \in ResultLists
    /\ rag_context = <<>>

InitRag ==
    /\ MetricsNew /\ CallersInit /\ HistoryInit
    /\ TrackerNew /\ SamplersInit
    /\ RunIdle
    /\ RagNew /\ MockNew

\* pipeline.assemble_context(results)
CallAssembleContext ==
    /\ rag_context = <<>>
    /\ rag_context' = <<assemble_context(config, results)>>
    /\ UNCHANGED <<config, results>>
    /\ UNCHANGED <<metricsVars, trackerVars, runVars, reportVars, mockVars>>

NextRag == CallAssembleContext

SpecRag == InitRag /\ [][NextRag]_vars

(***************************************************************************)
(* Claims about assemble_context, checked under SpecRag.                   *)
(***************************************************************************)
\* the chunks of a context: each one ends with "\n\n", and no chunk text of
\* the model holds a newline
ChunksIn(context) ==
    Cardinality({i \in 1..Len(context) : context[i] = "\n"}) \div 2

\* sum of the word counts of the first k results
RECURSIVE TokensOfFirst(_, _)
TokensOfFirst(res, k) ==
    IF k = 0 THEN 0
    ELSE TokensOfFirst(res, k - 1) + split_whitespace_count(res[k])

\* C36: assemble_context never exceeds the configured budget: for every
\* list of results the returned token_count, which is the sum of the
\* whitespace-separated word counts of the chunks put into the context, is
\* at most max_context_tokens.
C36_TokenCountWithinBudget ==
    rag_context # <<>> =>
        /\ rag_context[1].token_count <= config.max_context_tokens
        /\ ChunksIn(rag_context[1].context) <= Len(results)
        /\ rag_context[1].token_count =
               TokensOfFirst(results, ChunksIn(rag_context[1].context))

\* C36 witness: the budget is used up exactly by the chunks included, and a
\* further chunk with words in it was left out.
C36_Witness ==
    /\ rag_context # <<>>
    /\ config.max_context_tokens >= 2
    /\ rag_context[1].token_count = config.max_context_tokens
    /\ ChunksIn(rag_context[1].context) < Len(results)
    /\ ChunksIn(rag_context[1].context) >= 1


\* position of the first result that would push the token count over the
\* budget, Len(res) + 1 when none does
FirstOver(cfg, res) ==
    LET over == {k \in 1..Len(res) :
                    TokensOfFirst(res, k) > cfg.max_context_tokens}
    IN  IF over = {} THEN Len(res) + 1
        ELSE CHOOSE k \in over : \A j \in over : k <= j

\* the first k results as they are written to the context, in their order
RECURSIVE FormattedPrefix(_, _, _)
FormattedPrefix(cfg, res, k) ==
    IF k = 0 THEN <<>>
    ELSE FormattedPrefix(cfg, res, k - 1)
           \o (IF cfg.include_citations THEN Citation(k) ELSE <<>>)
           \o res[k] \o <<"\n", "\n">>

\* C37: assemble_context includes a prefix of the results in their given
\* order: the context is made of the results before the first one that would
\* push token_count over max_context_tokens, no later result is included
\* even if it would fit, and `sources` of the returned RagContext holds all
\* the input results, included or not.
C37_PrefixUntilFirstOver ==
    rag_context # <<>> =>
        /\ rag_context[1].context =
               FormattedPrefix(config, results, FirstOver(config, results) - 1)
        /\ rag_context[1].token_count =
               TokensOfFirst(results, FirstOver(config, results) - 1)
        /\ rag_context[1].sources = results

\* C37 witness: a result was over the budget and a later one, which would
\* have fitted and has words in it, was left out of the context but is among
\* the sources.
C37_Witness ==
    /\ rag_context # <<>>
    /\ \E k \in 1..Len(results) : \E j \in 1..Len(results) :
          /\ k = FirstOver(config, results)
          /\ j > k
          /\ split_whitespace_count(results[j]) >= 1
          /\ rag_context[1].token_count + split_whitespace_count(results[j])
                 <= config.max_context_tokens
          /\ ChunksIn(rag_context[1].context) = k - 1
          /\ rag_context[1].sources[j] = results[j]


(***************************************************************************)
(* Claims about the latencies of a summary, checked under SpecSummary.     *)
(***************************************************************************)
\* a step in which summary() returned a summary unlike the one before
SummaryTaken == summary_out' # summary_out

\* C38: a summary taken while no call is in progress and with
\* operations_completed >= 1 has avg_latency_us = floor(floor(
\* total_latency_ns / completed) / 1000), min_latency_us =
\* floor(min_latency_ns / 1000), max_latency_us = floor(max_latency_ns /
\* 1000), from the fields as they were when it was taken, and
\* min_latency_us <= avg_latency_us <= max_latency_us (total_latency_ns not
\* having wrapped).
C38_SummaryLatenciesOrdered ==
    [][(SummaryTaken /\ operations_completed >= 1) =>
          LET s == summary_out'[1] IN
              /\ s.avg_latency_us =
                     (total_latency_ns \div operations_completed) \div 1000
              /\ 1000 * s.avg_latency_us * operations_completed
                     <= total_latency_ns
              /\ s.min_latency_us = min_latency_ns \div 1000
              /\ s.max_latency_us = max_latency_ns \div 1000
              /\ s.min_latency_us <= s.avg_latency_us
              /\ s.avg_latency_us <= s.max_latency_us]_vars

\* C38 witness: a summary of several operations whose average lies strictly
\* between the extremes, all three in whole microseconds.
C38_Witness ==
    /\ summary_out # <<>>
    /\ summary_out[1].operations_completed >= 2
    /\ summary_out[1].min_latency_us < summary_out[1].avg_latency_us
    /\ summary_out[1].avg_latency_us < summary_out[1].max_latency_us
    /\ total_latency_ns % 1000 # 0


(***************************************************************************)
(* SpecMock: write, read and len of one MockStorage called concurrently,   *)
(* step by step, with the RwLock around `data`.                            *)
(***************************************************************************)
\* number of calls the callers make
MaxMockCalls == 4

\* two keys to write and read
MockKeys == {<<0, 0, 0>>, <<0, 0, 1>>}
\* two values to write, as <<task, operation, length in bytes>>
MockValues == {<<0, 0, 1>>, <<0, 0, 2>>}

\* what the storage steps leave alone
MockFrame ==
    UNCHANGED <<metricsVars, trackerVars, reportVars, ragVars, configVars,
                harnessVars, taskVars, syncVars, keys, faultVars>>

\* storage.write(key, value) is called
MwCall(c, k, v) ==
    /\ spc[c] = "idle"
    /\ calls_storage < MaxMockCalls
    /\ calls_storage' = calls_storage + 1
    /\ s_key' = [s_key EXCEPT ![c] = k]
    /\ s_value' = [s_value EXCEPT ![c] = v]
    /\ spc' = [spc EXCEPT ![c] = "w_lock"]
    /\ UNCHANGED <<lock_writer, lock_readers, s_ret, s_len, writes_completed,
                   completed, storageVars>>
    /\ MockFrame

\* let mut data = self.data.write().await
MwLock(c) ==
    /\ spc[c] = "w_lock"
    /\ lock_writer = 0
    /\ lock_readers = {}
    /\ lock_writer' = c
    /\ spc' = [spc EXCEPT ![c] = "w_insert"]
    /\ UNCHANGED <<lock_readers, s_key, s_value, s_ret, s_len, calls_storage,
                   writes_completed, completed, storageVars>>
    /\ MockFrame

\* data.insert(key, value)
MwInsert(c) ==
    /\ spc[c] = "w_insert"
    /\ data' = (s_key[c] :> s_value[c]) @@ data
    /\ spc' = [spc EXCEPT ![c] = "w_count"]
    /\ UNCHANGED <<lock_writer, lock_readers, s_key, s_value, s_ret, s_len,
                   calls_storage, writes_completed, completed, write_count,
                   read_count>>
    /\ MockFrame

\* self.write_count.fetch_add(1, Ordering::SeqCst)
MwCount(c) ==
    /\ spc[c] = "w_count"
    /\ write_count' = WrapAdd(write_count, 1)
    /\ spc' = [spc EXCEPT ![c] = "w_return"]
    /\ UNCHANGED <<lock_writer, lock_readers, s_key, s_value, s_ret, s_len,
                   calls_storage, writes_completed, completed, data,
                   read_count>>
    /\ MockFrame

\* Ok(()): the guard is dropped and the call returns
MwReturn(c) ==
    /\ spc[c] = "w_return"
    /\ lock_writer' = 0
    /\ writes_completed' = writes_completed + 1
    /\ completed' = (s_key[c] :> s_value[c]) @@ completed
    /\ s_key' = [s_key EXCEPT ![c] = NoKey]
    /\ s_value' = [s_value EXCEPT ![c] = NoValue]
    /\ spc' = [spc EXCEPT ![c] = "idle"]
    /\ UNCHANGED <<lock_readers, s_ret, s_len, calls_storage, storageVars>>
    /\ MockFrame

\* storage.read(&key) is called
MrCall(c, k) ==
    /\ spc[c] = "idle"
    /\ calls_storage < MaxMockCalls
    /\ calls_storage' = calls_storage + 1
    /\ s_key' = [s_key EXCEPT ![c] = k]
    /\ spc' = [spc EXCEPT ![c] = "r_lock"]
    /\ UNCHANGED <<lock_writer, lock_readers, s_value, s_ret, s_len,
                   writes_completed, completed, storageVars>>
    /\ MockFrame

\* (mutation of MrLock: the read does not wait for the writer)
MrLock_unguarded(c) ==
    /\ spc[c] = "r_lock"
    /\ lock_readers' = lock_readers \cup {c}
    /\ spc' = [spc EXCEPT ![c] = "r_count"]
    /\ UNCHANGED <<lock_writer, s_key, s_value, s_ret, s_len, calls_storage,
                   writes_completed, completed, storageVars>>
    /\ MockFrame

\* let data = self.data.read().await
MrLock(c) ==
    /\ spc[c] = "r_lock"
    /\ lock_writer = 0
    /\ lock_readers' = lock_readers \cup {c}
    /\ spc' = [spc EXCEPT ![c] = "r_count"]
    /\ UNCHANGED <<lock_writer, s_key, s_value, s_ret, s_len, calls_storage,
                   writes_completed, completed, storageVars>>
    /\ MockFrame

\* self.read_count.fetch_add(1, Ordering::SeqCst)
MrCount(c) ==
    /\ spc[c] = "r_count"
    /\ read_count' = WrapAdd(read_count, 1)
    /\ spc' = [spc EXCEPT ![c] = "r_get"]
    /\ UNCHANGED <<lock_writer, lock_readers, s_key, s_value, s_ret, s_len,
                   calls_storage, writes_completed, completed, data,
                   write_count>>
    /\ MockFrame

\* data.get(key).cloned(): None is NoValue
MrGet(c) ==
    /\ spc[c] = "r_get"
    /\ s_ret' = [s_ret EXCEPT
                   ![c] = IF s_key[c] \in DOMAIN data THEN <<data[s_key[c]]>>
                          ELSE <<NoValue>>]
    /\ spc' = [spc EXCEPT ![c] = "r_return"]
    /\ UNCHANGED <<lock_writer, lock_readers, s_key, s_value, s_len,
                   calls_storage, writes_completed, completed, storageVars>>
    /\ MockFrame

\* Ok(..): the guard is dropped and the call returns
MrReturn(c) ==
    /\ spc[c] = "r_return"
    /\ lock_readers' = lock_readers \ {c}
    /\ s_key' = [s_key EXCEPT ![c] = NoKey]
    /\ s_ret' = [s_ret EXCEPT ![c] = <<>>]
    /\ spc' = [spc EXCEPT ![c] = "idle"]
    /\ UNCHANGED <<lock_writer, s_value, s_len, calls_storage,
                   writes_completed, completed, storageVars>>
    /\ MockFrame

\* storage.len() is called
MlCall(c) ==
    /\ spc[c] = "idle"
    /\ calls_storage < MaxMockCalls
    /\ calls_storage' = calls_storage + 1
    /\ spc' = [spc EXCEPT ![c] = "l_lock"]
    /\ UNCHANGED <<lock_writer, lock_readers, s_key, s_value, s_ret, s_len,
                   writes_completed, completed, storageVars>>
    /\ MockFrame

\* self.data.read().await
MlLock(c) ==
    /\ spc[c] = "l_lock"
    /\ lock_writer = 0
    /\ lock_readers' = lock_readers \cup {c}
    /\ spc' = [spc EXCEPT ![c] = "l_len"]
    /\ UNCHANGED <<lock_writer, s_key, s_value, s_ret, s_len, calls_storage,
                   writes_completed, completed, storageVars>>
    /\ MockFrame

\* .len() on the guarded map
MlLen(c) ==
    /\ spc[c] = "l_len"
    /\ s_len' = [s_len EXCEPT ![c] = Cardinality(DOMAIN data)]
    /\ spc' = [spc EXCEPT ![c] = "l_return"]
    /\ UNCHANGED <<lock_writer, lock_readers, s_key, s_value, s_ret,
                   calls_storage, writes_completed, completed, storageVars>>
    /\ MockFrame

\* the temporary guard is dropped at the end of the statement and the call
\* returns
MlReturn(c) ==
    /\ spc[c] = "l_return"
    /\ lock_readers' = lock_readers \ {c}
    /\ s_len' = [s_len EXCEPT ![c] = 0]
    /\ spc' = [spc EXCEPT ![c] = "idle"]
    /\ UNCHANGED <<lock_writer, s_key, s_value, s_ret, calls_storage,
                   writes_completed, completed, storageVars>>
    /\ MockFrame

InitMock ==
    /\ MetricsNew /\ CallersInit /\ HistoryInit
    /\ RagIdle /\ MockNew
    /\ TrackerNew /\ SamplersInit
    /\ RunIdle

NextMock ==
    \/ \E c \in Callers, k \in MockKeys, v \in MockValues : MwCall(c, k, v)
    \/ \E c \in Callers : MwLock(c)
    \/ \E c \in Callers : MwInsert(c)
    \/ \E c \in Callers : MwCount(c)
    \/ \E c \in Callers : MwReturn(c)
    \/ \E c \in Callers, k \in MockKeys : MrCall(c, k)
    \/ \E c \in Callers : MrLock(c)
    \/ \E c \in Callers : MrCount(c)
    \/ \E c \in Callers : MrGet(c)
    \/ \E c \in Callers : MrReturn(c)
    \/ \E c \in Callers : MlCall(c)
    \/ \E c \in Callers : MlLock(c)
    \/ \E c \in Callers : MlLen(c)
    \/ \E c \in Callers : MlReturn(c)

SpecMock == InitMock /\ [][NextMock]_vars

(***************************************************************************)
(* Claims about MockStorage, checked under SpecMock.                       *)
(***************************************************************************)
\* a write call is between taking the lock and returning
WriteInProgress == lock_writer # 0

\* the value of the last returned write to key k, None if there is none
LastCompleted(k) == IF k \in DOMAIN completed THEN completed[k] ELSE NoValue

\* C39: MockStorage is consistent under concurrent use: whenever no write is
\* in progress, write_count is the number of write calls that returned and
\* len() is the number of distinct keys written (so len() <= write_count);
\* a read of a key returns the value of the most recent completed write to
\* that key, or None if the key was never written.
C39_MockStorageConsistent ==
    /\ ~WriteInProgress =>
          /\ write_count = writes_completed
          /\ DOMAIN data = DOMAIN completed
          /\ Cardinality(DOMAIN data) <= write_count
          /\ data = completed
    /\ \A c \in Callers :
          /\ spc[c] = "r_return" => s_ret[c] = <<LastCompleted(s_key[c])>>
          /\ spc[c] = "l_return" =>
                 s_len[c] = Cardinality(DOMAIN completed)

\* C39 witness: a read returns the value of the one write that returned,
\* while another caller, its call begun, waits for the lock to write another
\* value under the same key.
C39_Witness ==
    /\ ~WriteInProgress
    /\ write_count = 1
    /\ \E c \in Callers, d \in Callers :
          /\ spc[c] = "r_return"
          /\ s_ret[c] = <<LastCompleted(s_key[c])>>
          /\ s_ret[c] # <<NoValue>>
          /\ spc[d] = "w_lock"
          /\ s_key[d] = s_key[c]
          /\ <<s_value[d]>> # s_ret[c]

=============================================================================
